---------------------------- MODULE Spec2Model ----------------------------
(***************************************************************************)
(* Broker-link / account-sync workflow of the asset dashboard:             *)
(*   - fetchWithRetry            (src/src/utils/snaptrade.ts)              *)
(*   - createSnapTradeUserLink   (src/src/utils/snaptrade.ts)              *)
(*   - fetchSnapTradeHoldings    (src/src/utils/snaptrade.ts)              *)
(*   - handleSnapTradeCallback   (src/src/utils/snaptrade.ts)              *)
(*   - GET /api/snaptrade/callback (src/src/app/api/snaptrade/callback)    *)
(*   - POST connection-link route  (src/unnamed/part_001)                  *)
(*   - AddAssetButton dialog       (src/unnamed/part_000)                  *)
(*                                                                         *)
(* Strings that the code only tests for truthiness are modelled with ""    *)
(* standing for every falsy value (absent, null, undefined, "").           *)
(***************************************************************************)
EXTENDS Integers, Sequences, FiniteSets, TLC

VARIABLES
    CLIENT_ID,      \* module constant read from the environment at load
    CONSUMER_KEY,   \* module constant read from the environment at load
    useProxy,       \* typeof window !== "undefined"
    wire,           \* outbound requests of the running operation, with outcomes
    rt,             \* fetchWithRetry: call stack, attempts made, waits scheduled
    lk,             \* createSnapTradeUserLink activation
    hd,             \* fetchSnapTradeHoldings activation
    hc,             \* handleSnapTradeCallback activation
    cb,             \* callback route GET activation
    db,             \* rows written to broker_connections and assets
    post,           \* connection-link route POST activation
    waiting,        \* a second callback activation, suspended at an await
    dlg             \* AddAssetButton: the state of the add-asset dialog

vars == <<CLIENT_ID, CONSUMER_KEY, useProxy, wire, rt, lk, hd, hc, cb, db, post, waiting, dlg>>

-----------------------------------------------------------------------------
(* Bounds and program constants *)

DefaultRetries == 3
DefaultDelay == 1000
MaxRetries == 4
MaxAccounts == 2

RetryArgs == -1 .. MaxRetries
DelayArgs == {DefaultDelay, 250}

Statuses == {200, 404, 500}

IsOk(status) == status >= 200 /\ status <= 299

-----------------------------------------------------------------------------
(* Errors.  kind identifies the message family; code carries a status code  *)
(* or the number of the attempt whose failure it is; form is the form of    *)
(* the response body whose text the message quotes ("" when it quotes none).*)

Err(kind, code, form) == [kind |-> kind, code |-> code, form |-> form]

NoErr == Err("none", 0, "")

\* "SnapTrade API credentials not configured"
CredentialsError == Err("credentials", 0, "")

\* the TypeError raised by fetch() on the n-th attempt of a call
TransportError(n) == Err("transport", n, "")

-----------------------------------------------------------------------------
(* Response bodies.  form is what the text looks like:                     *)
(*   "doctype"  starts with <!DOCTYPE      "html"   starts with <html      *)
(*   "wshtml"   whitespace, then <html     "text"   other non-JSON text    *)
(*   "json"     parses as JSON                                             *)

HtmlForms == {"doctype", "html", "wshtml"}
TextForms == HtmlForms \cup {"text"}

\* the empty body of a Response built from undefined
EmptyForm == "empty"

\* JSON.parse(text) succeeds
ParsesAsJson(body) == body.form = "json"

\* text.trim().startsWith("<!DOCTYPE") || text.trim().startsWith("<html")
LooksLikeHtml(body) == body.form \in HtmlForms

\* the text itself (untrimmed) starts with <!DOCTYPE or <html
StartsWithHtml(body) == body.form \in {"doctype", "html"}


\* a JSON value of the aggregation API: null, or an object of which the code
\* reads the fields redirectURI and error; "undef" is an absent value
Json(jt, redirectURI, error) ==
    [jt |-> jt, redirectURI |-> redirectURI, error |-> error]

JUndef == Json("undef", "", "")
JNull == Json("null", "", "")
PortalUrl == "https://portal/connect"

ApiJson == {JNull, Json("obj", "", ""), Json("obj", PortalUrl, ""),
            Json("obj", "", "rejected")}

\* the relay's envelope {status, statusText, headers, data, error}; status 0 is
\* an absent status
Envelope(et, status, data, error) ==
    [et |-> et, status |-> status, data |-> data, error |-> error]

NoEnvelope == Envelope("none", 0, JUndef, "")
NullEnvelope == Envelope("null", 0, JUndef, "")

Envelopes ==
    {NullEnvelope} \cup
    {Envelope("obj", s, d, e) :
        s \in {0, 200, 404}, d \in ApiJson \cup {JUndef}, e \in {"", "relay failed"}}

Body(form, json, env, list) ==
    [form |-> form, json |-> json, env |-> env, list |-> list]

NoBody == Body("none", JUndef, NoEnvelope, <<>>)
TextBody(form) == Body(form, JUndef, NoEnvelope, <<>>)
JsonBody(json) == Body("json", json, NoEnvelope, <<>>)
EnvelopeBody(env) == Body("json", JUndef, env, <<>>)
ListBody(list) == Body("json", JUndef, NoEnvelope, list)

Response(status, body) == [status |-> status, body |-> body]

NoResponse == Response(0, NoBody)

\* what the aggregation API can answer to registerUser / connectionPortal
DirectResponses ==
    {Response(s, b) :
        s \in Statuses, b \in {TextBody(f) : f \in TextForms} \cup {JsonBody(j) : j \in ApiJson}}

\* what the same-origin relay can answer
RelayResponses ==
    {Response(s, b) :
        s \in {200, 500},
        b \in {TextBody(f) : f \in TextForms} \cup {EnvelopeBody(e) : e \in Envelopes}}

\* what an arbitrary target of a stand-alone fetchWithRetry call can answer
PlainResponses ==
    {Response(s, b) : s \in Statuses, b \in {TextBody("text"), JsonBody(Json("obj", "", ""))}}

-----------------------------------------------------------------------------
(* The network log: one entry per fetch() issued by the running operation.  *)

(* brokerage is the request body's brokerage field ("" when it has none).   *)

Sent(url, via, brokerage, kind, resp, err) ==
    [url |-> url, via |-> via, brokerage |-> brokerage, kind |-> kind,
     resp |-> resp, err |-> err]

Answered(url, via, brokerage, resp) == Sent(url, via, brokerage, "resp", resp, NoErr)
Failed(url, via, brokerage, err) == Sent(url, via, brokerage, "fail", NoResponse, err)

-----------------------------------------------------------------------------
(* fetchWithRetry *)

Frame(retries, delay) == [retries |-> retries, delay |-> delay]

RtIdle ==
    [pc |-> "idle", url |-> "", brokerage |-> "", stack |-> <<>>, attempts |-> 0, waits |-> <<>>,
     resp |-> NoResponse, err |-> NoErr]

\* the outermost call: fetchWithRetry(url, options, retries, delay)
RtStart(url, brokerage, retries, delay) ==
    [RtIdle EXCEPT !.pc = "fetch", !.url = url, !.brokerage = brokerage,
                   !.stack = <<Frame(retries, delay)>>]

RtTop(r) == r.stack[Len(r.stack)]

\* faulty variant of NextDelay: the delay grows by a fixed step
NextDelayLinear(delay) == delay + DefaultDelay

\* the delay handed to the recursive call
NextDelay(delay) == delay * 2

\* faulty variant of RtOnResponse: a non-2xx response is treated as a failure
RtOnResponseRetryNotOk(r, resp) ==
    IF IsOk(resp.status) \/ RtTop(r).retries <= 0
    THEN [r EXCEPT !.pc = "returned", !.attempts = @ + 1, !.resp = resp]
    ELSE [r EXCEPT !.pc = "sleep", !.attempts = @ + 1,
                   !.waits = Append(@, RtTop(r).delay)]

\* const response = await fetch(url, options); return response;
RtOnResponse(r, resp) ==
    [r EXCEPT !.pc = "returned", !.attempts = @ + 1, !.resp = resp]

\* faulty variant of RtOnFailure: one more retry than the budget
RtOnFailureOneMore(r, err) ==
    IF RtTop(r).retries < 0
    THEN [r EXCEPT !.pc = "thrown", !.attempts = @ + 1, !.err = err]
    ELSE [r EXCEPT !.pc = "sleep", !.attempts = @ + 1,
                   !.waits = Append(@, RtTop(r).delay)]

\* catch (error): rethrow when the budget is spent, else schedule the wait
RtOnFailure(r, err) ==
    IF RtTop(r).retries <= 0
    THEN [r EXCEPT !.pc = "thrown", !.attempts = @ + 1, !.err = err]
    ELSE [r EXCEPT !.pc = "sleep", !.attempts = @ + 1,
                   !.waits = Append(@, RtTop(r).delay)]

\* the timer resolves: return fetchWithRetry(url, options, retries - 1, delay * 2)
RtOnTimer(r) ==
    [r EXCEPT !.pc = "fetch",
              !.stack = Append(@, Frame(RtTop(r).retries - 1, NextDelay(RtTop(r).delay)))]

ResponsesFor(url) ==
    CASE url = "any" -> PlainResponses
      [] url \in {"relay:registerUser", "relay:connectionPortal"} -> RelayResponses
      [] OTHER -> DirectResponses

\* the fetch() of the current attempt rejects (transport failure)
RtAttemptFails ==
    /\ rt.pc = "fetch"
    /\ LET err == TransportError(rt.attempts + 1)
       IN /\ wire' = Append(wire, Failed(rt.url, "fetchWithRetry", rt.brokerage, err))
          /\ rt' = RtOnFailure(rt, err)
    /\ UNCHANGED <<CLIENT_ID, CONSUMER_KEY, useProxy, dlg, post, waiting, lk, hd, hc, cb, db>>

\* the fetch() of the current attempt resolves with a response
RtAttemptResponds ==
    /\ rt.pc = "fetch"
    /\ \E resp \in ResponsesFor(rt.url) :
          /\ wire' = Append(wire, Answered(rt.url, "fetchWithRetry", rt.brokerage, resp))
          /\ rt' = RtOnResponse(rt, resp)
    /\ UNCHANGED <<CLIENT_ID, CONSUMER_KEY, useProxy, dlg, post, waiting, lk, hd, hc, cb, db>>

\* setTimeout(resolve, delay) fires
RtTimerFires ==
    /\ rt.pc = "sleep"
    /\ rt' = RtOnTimer(rt)
    /\ UNCHANGED <<CLIENT_ID, CONSUMER_KEY, useProxy, dlg, post, waiting, wire, lk, hd, hc, cb, db>>

RtNext == RtAttemptFails \/ RtAttemptResponds \/ RtTimerFires

-----------------------------------------------------------------------------
(* createSnapTradeUserLink *)

Users == {"u1", "u2"}
CallbackUrl == "https://x/cb"
BrokerIds == {"", "questrade"}

LkIdle ==
    [pc |-> "idle", userId |-> "", redirectUri |-> "", brokerId |-> "",
     result |-> "", err |-> NoErr]

\* outcome of a stretch of code: it completed with a response / a value, or threw
Went(resp, value) == [ok |-> TRUE, resp |-> resp, value |-> value, err |-> NoErr]
Threw(err) == [ok |-> FALSE, resp |-> NoResponse, value |-> "", err |-> err]

\* new Response(JSON.stringify(proxyData.data), {status: proxyData.status, ...})
MockResponse(env) ==
    Response(IF env.status = 0 THEN 200 ELSE env.status,
             IF env.data.jt = "undef" THEN TextBody(EmptyForm) ELSE JsonBody(env.data))

\* reading and unwrapping the relay's response (register: 278-332, portal: 397-451);
\* the "Proxy error" message carries the error text or the status text, no code
ProxyUnwrap(proxyResponse) ==
    LET text == proxyResponse.body
        env == text.env
    IN IF ~ParsesAsJson(text)
       THEN IF LooksLikeHtml(text)
            THEN Threw(Err("html", 0, text.form))
            ELSE Threw(Err("read", 0, text.form))
       ELSE IF env.et = "null"
       THEN Threw(Err("type", 0, ""))
       ELSE IF ~IsOk(proxyResponse.status)
       THEN Threw(Err("proxy", 0, ""))
       ELSE IF env.error # "" \/ (env.data.jt = "obj" /\ env.data.error # "")
       THEN Threw(Err("proxy", 0, ""))
       ELSE Went(MockResponse(env), "")

\* the response the rest of the function works on
LinkResponse(proxied, fetched) ==
    IF proxied THEN ProxyUnwrap(fetched) ELSE Went(fetched, "")

\* if (!response.ok) { await response.json(); throw ... }  await response.json()
ReadJson(response, failKind) ==
    IF ~ParsesAsJson(response.body)
    THEN Threw(Err("syntax", 0, response.body.form))
    ELSE IF ~IsOk(response.status)
    THEN Threw(Err(failKind, response.status, ""))
    ELSE Went(response, "")

\* faulty variant of AfterRegister: the status and the body are not looked at
AfterRegisterUnread(proxied, fetched) == LinkResponse(proxied, fetched)

\* lines 354-363
AfterRegister(proxied, fetched) ==
    LET got == LinkResponse(proxied, fetched)
    IN IF got.ok THEN ReadJson(got.resp, "register_status") ELSE got

\* faulty variant of PortalResult: the redirect field is not checked
PortalResultAnyUrl(portalData) ==
    IF portalData.jt = "null"
    THEN Threw(Err("type", 0, ""))
    ELSE Went(NoResponse, portalData.redirectURI)

\* portalData.redirectURI, lines 483-490
PortalResult(portalData) ==
    IF portalData.jt = "null"
    THEN Threw(Err("type", 0, ""))
    ELSE IF portalData.redirectURI = ""
    THEN Threw(Err("no_redirect", 0, ""))
    ELSE Went(NoResponse, portalData.redirectURI)

\* lines 475-490
AfterPortal(proxied, fetched) ==
    LET got == LinkResponse(proxied, fetched)
        read == IF got.ok THEN ReadJson(got.resp, "portal_status") ELSE got
    IN IF read.ok THEN PortalResult(read.resp.body.json) ELSE read

\* catch (error): a TypeError whose message mentions "fetch" is rewrapped as
\* "Network error connecting to SnapTrade API"; mentions tells whether the
\* platform's fetch() TypeError does
LinkCatch(err, mentions) ==
    IF err.kind = "transport" /\ mentions
    THEN Err("network", err.code, "")
    ELSE err

\* In a browser the message of fetch's TypeError depends on the engine; the
\* server's message is "fetch failed".
MentionsFetch(proxied) == IF proxied THEN BOOLEAN ELSE {TRUE}

LinkUrl(proxied, endpoint) == IF proxied THEN "relay:" \o endpoint ELSE endpoint

\* faulty variant of LkEnter: the credentials are not checked
LkEnterNoCheck(userId, redirectUri, brokerId, clientId, consumerKey) ==
    [LkIdle EXCEPT !.pc = "register", !.userId = userId,
                   !.redirectUri = redirectUri, !.brokerId = brokerId]

\* lines 230-237: the credential check
LkEnter(userId, redirectUri, brokerId, clientId, consumerKey) ==
    IF clientId = "" \/ consumerKey = ""
    THEN [LkIdle EXCEPT !.pc = "thrown", !.userId = userId,
                        !.redirectUri = redirectUri, !.brokerId = brokerId,
                        !.err = CredentialsError]
    ELSE [LkIdle EXCEPT !.pc = "register", !.userId = userId,
                        !.redirectUri = redirectUri, !.brokerId = brokerId]

\* the call, up to the first registerUser request
LkCall ==
    /\ lk.pc = "idle" /\ hd.pc = "idle" /\ hc.pc = "idle" /\ rt.pc = "idle"
    /\ \E userId \in Users, brokerId \in BrokerIds :
          lk' = LkEnter(userId, CallbackUrl, brokerId, CLIENT_ID, CONSUMER_KEY)
    /\ rt' = IF lk'.pc = "register"
             THEN RtStart(LinkUrl(useProxy, "registerUser"), "",
                          DefaultRetries, DefaultDelay)
             ELSE rt
    /\ UNCHANGED <<CLIENT_ID, CONSUMER_KEY, useProxy, dlg, post, waiting, wire, hd, hc, cb, db>>

\* the registerUser call has settled: handle it and send connectionPortal
LkRegisterDone ==
    /\ lk.pc = "register"
    /\ rt.pc \in {"returned", "thrown"}
    /\ \E mentions \in MentionsFetch(useProxy) :
          LET got == IF rt.pc = "thrown" THEN Threw(rt.err)
                     ELSE AfterRegister(useProxy, rt.resp)
          IN IF got.ok
             THEN /\ lk' = [lk EXCEPT !.pc = "portal"]
                  /\ rt' = RtStart(LinkUrl(useProxy, "connectionPortal"), lk.brokerId,
                                   DefaultRetries, DefaultDelay)
             ELSE /\ lk' = [lk EXCEPT !.pc = "thrown", !.err = LinkCatch(got.err, mentions)]
                  /\ rt' = RtIdle
    /\ UNCHANGED <<CLIENT_ID, CONSUMER_KEY, useProxy, dlg, post, waiting, wire, hd, hc, cb, db>>

\* the connectionPortal call has settled: return the portal URL or throw
LkPortalDone ==
    /\ lk.pc = "portal"
    /\ rt.pc \in {"returned", "thrown"}
    /\ \E mentions \in MentionsFetch(useProxy) :
          LET got == IF rt.pc = "thrown" THEN Threw(rt.err)
                     ELSE AfterPortal(useProxy, rt.resp)
          IN IF got.ok
             THEN lk' = [lk EXCEPT !.pc = "returned", !.result = got.value]
             ELSE lk' = [lk EXCEPT !.pc = "thrown", !.err = LinkCatch(got.err, mentions)]
    /\ rt' = RtIdle
    /\ UNCHANGED <<CLIENT_ID, CONSUMER_KEY, useProxy, dlg, post, waiting, wire, hd, hc, cb, db>>

LkNext == LkCall \/ LkRegisterDone \/ LkPortalDone

-----------------------------------------------------------------------------
(* fetchSnapTradeHoldings *)

AccountNames == <<"acc1", "acc2", "acc3">>

\* the i-th account of the user as the accounts endpoint lists it; only the
\* first one names its broker
Account(i) ==
    [id |-> AccountNames[i], name |-> AccountNames[i],
     brokerName |-> IF i = 1 THEN "Questrade" ELSE ""]

AccountList(n) == [i \in 1 .. n |-> Account(i)]

Balance(currency, cash, amount) ==
    [currency |-> currency, cash |-> cash, amount |-> amount]

BalanceLists ==
    { <<>>,
      <<Balance("USD", TRUE, 5)>>,
      <<Balance("USD", TRUE, -7)>>,
      <<Balance("CAD", TRUE, 3)>>,
      <<Balance("USD", FALSE, 4), Balance("USD", TRUE, 2), Balance("USD", TRUE, 9)>> }

Position(symbol, description, quantity, price, openPnl, bookValue) ==
    [symbol |-> symbol, description |-> description, quantity |-> quantity,
     price |-> price, openPnl |-> openPnl, bookValue |-> bookValue]

Apple == Position("AAPL", "Apple Inc.", 2, 3, 1, 4)
Microsoft == Position("MSFT", "", 1, 5, 0, 5)

PositionLists == { <<>>, <<Apple>>, <<Microsoft, Apple>> }

AccountsResponses ==
    {Response(200, ListBody(AccountList(n))) : n \in 0 .. MaxAccounts}
    \cup {Response(500, JsonBody(Json("obj", "", "rejected"))),
          Response(500, TextBody("doctype")), Response(200, TextBody("html"))}

BalancesResponses ==
    {Response(200, ListBody(l)) : l \in BalanceLists}
    \cup {Response(500, TextBody("text")), Response(200, TextBody("text"))}

HoldingsResponses ==
    {Response(200, ListBody(l)) : l \in PositionLists}
    \cup {Response(404, TextBody("text")), Response(200, TextBody("doctype"))}

HdIdle ==
    [pc |-> "idle", userId |-> "", accounts |-> <<>>, i |-> 0,
     allHoldings |-> <<>>, totalCash |-> 0, result |-> <<>>, err |-> NoErr]

Holding(symbol, name, quantity, pricePerShare, totalValue, gainLoss, purchasePrice, accountId, accountName, brokerName) ==
    [symbol |-> symbol, name |-> name, quantity |-> quantity,
     pricePerShare |-> pricePerShare, totalValue |-> totalValue,
     gainLoss |-> gainLoss, purchasePrice |-> purchasePrice,
     accountId |-> accountId, accountName |-> accountName, brokerName |-> brokerName]

\* lines 132-144; the quantities of the modelled positions divide their book
\* values, so the quotient is exact
ToHolding(account, p) ==
    Holding(p.symbol,
            IF p.description # "" THEN p.description ELSE p.symbol,
            p.quantity, p.price, p.price * p.quantity, p.openPnl,
            p.bookValue \div p.quantity,
            account.id, account.name,
            IF account.brokerName # "" THEN account.brokerName ELSE "SnapTrade")

ToHoldings(account, positions) ==
    [k \in 1 .. Len(positions) |-> ToHolding(account, positions[k])]

\* lines 150-161
CashHolding(totalCash) ==
    Holding("CASH", "Cash Balance", 1, totalCash, totalCash, 0, totalCash,
            "cash", "Cash", "SnapTrade")

\* balances.find((b) => b.currency === "USD" && b.cash): index of the first
\* match, 0 when there is none
IsUsdCash(b) == b.currency = "USD" /\ b.cash

FindCash(balances) ==
    LET hits == {k \in 1 .. Len(balances) : IsUsdCash(balances[k])}
    IN IF hits = {} THEN 0 ELSE CHOOSE k \in hits : \A m \in hits : k <= m

\* lines 97-104
AddCash(totalCash, balances) ==
    IF FindCash(balances) = 0 THEN totalCash
    ELSE totalCash + balances[FindCash(balances)].amount

\* faulty variant of HdFinish: the CASH holding is appended unconditionally
HdFinishAlwaysCash(h) ==
    [h EXCEPT !.pc = "returned",
              !.allHoldings = Append(h.allHoldings, CashHolding(h.totalCash)),
              !.result = Append(h.allHoldings, CashHolding(h.totalCash))]

\* lines 148-164: the loop is over
HdFinish(h) ==
    LET all == IF h.totalCash > 0
               THEN Append(h.allHoldings, CashHolding(h.totalCash))
               ELSE h.allHoldings
    IN [h EXCEPT !.pc = "returned", !.allHoldings = all, !.result = all]

\* the next iteration of for (const account of accounts), or the end of the loop
HdAdvance(h) ==
    IF h.i < Len(h.accounts)
    THEN [h EXCEPT !.pc = "balances", !.i = h.i + 1]
    ELSE HdFinish(h)

\* catch (error) { console.error(...); throw error; }
HdThrow(h, err) == [h EXCEPT !.pc = "thrown", !.err = err]

\* lines 69-76
HdOnAccounts(h, resp) ==
    LET read == ReadJson(resp, "accounts_status")
    IN IF read.ok
       THEN HdAdvance([h EXCEPT !.accounts = resp.body.list, !.i = 0])
       ELSE HdThrow(h, read.err)

\* lines 96-105
HdOnBalances(h, resp) ==
    IF ~IsOk(resp.status)
    THEN [h EXCEPT !.pc = "holdings"]
    ELSE IF ~ParsesAsJson(resp.body)
    THEN HdThrow(h, Err("syntax", 0, resp.body.form))
    ELSE [h EXCEPT !.pc = "holdings", !.totalCash = AddCash(h.totalCash, resp.body.list)]

\* lines 120-145
HdOnHoldings(h, resp) ==
    IF ~IsOk(resp.status)
    THEN HdAdvance(h)
    ELSE IF ~ParsesAsJson(resp.body)
    THEN HdThrow(h, Err("syntax", 0, resp.body.form))
    ELSE HdAdvance([h EXCEPT !.allHoldings =
                        @ \o ToHoldings(h.accounts[h.i], resp.body.list)])

\* how this function issues a request: "fetch" is the bare fetch() of lines
\* 56, 84 and 108
HdVia == "fetch"

HdUrl(h) ==
    CASE h.pc = "accounts" -> "accounts"
      [] h.pc = "balances" -> "balances:" \o h.accounts[h.i].id
      [] h.pc = "holdings" -> "holdings:" \o h.accounts[h.i].id
      [] OTHER -> ""

\* lines 47-56: the credential check, then the accounts request
HdEnter(userId, clientId, consumerKey) ==
    IF clientId = "" \/ consumerKey = ""
    THEN [HdIdle EXCEPT !.pc = "thrown", !.userId = userId, !.err = CredentialsError]
    ELSE [HdIdle EXCEPT !.pc = "accounts", !.userId = userId]

HdCall ==
    /\ lk.pc = "idle" /\ hd.pc = "idle" /\ hc.pc = "idle" /\ rt.pc = "idle"
    /\ \E userId \in Users : hd' = HdEnter(userId, CLIENT_ID, CONSUMER_KEY)
    /\ UNCHANGED <<CLIENT_ID, CONSUMER_KEY, useProxy, dlg, post, waiting, wire, rt, lk, hc, cb, db>>

\* a fetch() of the function rejects: the error leaves through the catch block
HdFetchFails ==
    /\ hd.pc \in {"accounts", "balances", "holdings"}
    /\ wire' = Append(wire, Failed(HdUrl(hd), HdVia, "", TransportError(1)))
    /\ hd' = HdThrow(hd, TransportError(1))
    /\ UNCHANGED <<CLIENT_ID, CONSUMER_KEY, useProxy, dlg, post, waiting, rt, lk, hc, cb, db>>

HdAccountsDone ==
    /\ hd.pc = "accounts"
    /\ \E resp \in AccountsResponses :
          /\ wire' = Append(wire, Answered(HdUrl(hd), HdVia, "", resp))
          /\ hd' = HdOnAccounts(hd, resp)
    /\ UNCHANGED <<CLIENT_ID, CONSUMER_KEY, useProxy, dlg, post, waiting, rt, lk, hc, cb, db>>

HdBalancesDone ==
    /\ hd.pc = "balances"
    /\ \E resp \in BalancesResponses :
          /\ wire' = Append(wire, Answered(HdUrl(hd), HdVia, "", resp))
          /\ hd' = HdOnBalances(hd, resp)
    /\ UNCHANGED <<CLIENT_ID, CONSUMER_KEY, useProxy, dlg, post, waiting, rt, lk, hc, cb, db>>

HdHoldingsDone ==
    /\ hd.pc = "holdings"
    /\ \E resp \in HoldingsResponses :
          /\ wire' = Append(wire, Answered(HdUrl(hd), HdVia, "", resp))
          /\ hd' = HdOnHoldings(hd, resp)
    /\ UNCHANGED <<CLIENT_ID, CONSUMER_KEY, useProxy, dlg, post, waiting, rt, lk, hc, cb, db>>

HdNext == HdCall \/ HdFetchFails \/ HdAccountsDone \/ HdBalancesDone \/ HdHoldingsDone

-----------------------------------------------------------------------------
(* handleSnapTradeCallback *)

Codes == {"", "code1"}

HcIdle == [pc |-> "idle", success |-> FALSE, accountId |-> "", err |-> NoErr]

\* lines 509-535
HandleCallback(clientId, consumerKey) ==
    IF clientId = "" \/ consumerKey = ""
    THEN [pc |-> "thrown", success |-> FALSE, accountId |-> "", err |-> CredentialsError]
    ELSE [pc |-> "returned", success |-> TRUE, accountId |-> "snaptrade-account-now",
          err |-> NoErr]

HcCall ==
    /\ lk.pc = "idle" /\ hd.pc = "idle" /\ hc.pc = "idle" /\ rt.pc = "idle"
    /\ hc' = HandleCallback(CLIENT_ID, CONSUMER_KEY)
    /\ UNCHANGED <<CLIENT_ID, CONSUMER_KEY, useProxy, dlg, post, waiting, wire, rt, lk, hd, cb, db>>

-----------------------------------------------------------------------------
(* A stand-alone call of fetchWithRetry with arbitrary arguments *)

FwrCall ==
    /\ lk.pc = "idle" /\ hd.pc = "idle" /\ hc.pc = "idle" /\ rt.pc = "idle"
    /\ \E retries \in RetryArgs, delay \in DelayArgs :
          rt' = RtStart("any", "", retries, delay)
    /\ UNCHANGED <<CLIENT_ID, CONSUMER_KEY, useProxy, dlg, post, waiting, wire, lk, hd, hc, cb, db>>

-----------------------------------------------------------------------------
(* fetchSnapTradeHoldings run to completion against a scripted service *)

FailOut == [kind |-> "fail", resp |-> NoResponse]
RespOut(resp) == [kind |-> "resp", resp |-> resp]

\* one request of the function and what the function does with its outcome
HdStep(h, out) ==
    IF out.kind = "fail" THEN HdThrow(h, TransportError(1))
    ELSE CASE h.pc = "accounts" -> HdOnAccounts(h, out.resp)
           [] h.pc = "balances" -> HdOnBalances(h, out.resp)
           [] h.pc = "holdings" -> HdOnHoldings(h, out.resp)
           [] OTHER -> h

RECURSIVE HdRun(_, _)
HdRun(h, script) ==
    IF script = <<>> \/ h.pc \in {"returned", "thrown"} THEN h
    ELSE HdRun(HdStep(h, Head(script)), Tail(script))

\* what the service answers, request after request, during one callback
HoldingsScripts ==
    { <<FailOut>>,
      <<RespOut(Response(200, ListBody(AccountList(0))))>>,
      <<RespOut(Response(200, ListBody(AccountList(1)))),
        RespOut(Response(200, ListBody(<<Balance("USD", TRUE, 5)>>))),
        RespOut(Response(200, ListBody(<<Apple>>)))>>,
      <<RespOut(Response(200, ListBody(AccountList(2)))),
        RespOut(Response(500, TextBody("text"))),
        RespOut(Response(404, TextBody("text"))),
        RespOut(Response(200, ListBody(<<>>))),
        RespOut(Response(200, ListBody(<<Microsoft, Apple>>)))>> }

-----------------------------------------------------------------------------
(* GET /api/snaptrade/callback *)

RedirectMissingUser == "/dashboard/assets?error=missing_user_id"
RedirectFailed == "/dashboard/assets?error=connection_failed"
RedirectSuccess == "/dashboard/assets?success=true"
\* the message parameter of this redirect is the error of the activation
RedirectError == "/dashboard/assets?error=true&message="

\* the result of supabase.auth.getUser() for the request's cookies
Session(error, user) == [error |-> error, user |-> user]

Sessions == {Session(TRUE, ""), Session(FALSE, "")} \cup {Session(FALSE, u) : u \in Users}

AccountIdParams == {"", "acct-param"}

CbIdle ==
    [pc |-> "idle", userId |-> "", accountId |-> "", success |-> FALSE, code |-> "",
     session |-> Session(FALSE, ""), holdings |-> <<>>, k |-> 0, categoryId |-> "",
     redirect |-> "", err |-> NoErr, log |-> <<>>]

DbEmpty == [broker_connections |-> <<>>, assets |-> <<>>]

\* faulty variant of EarlyExit: only the userId is checked
EarlyExitUserOnly(userId, success, code) ==
    IF userId = "" THEN RedirectMissingUser ELSE ""

\* lines 28-42: the redirect of an early exit, "" when the request goes on
EarlyExit(userId, success, code) ==
    IF userId = "" THEN RedirectMissingUser
    ELSE IF ~success /\ code = "" THEN RedirectFailed
    ELSE ""

\* faulty variant of SessionCheck: any authenticated user passes
SessionCheckAnyUser(session, userId) ==
    IF session.error THEN Err("auth", 0, "")
    ELSE IF session.user = "" THEN Err("no_user", 0, "")
    ELSE NoErr

\* lines 54-70: the error the session check throws, NoErr when it passes
SessionCheck(session, userId) ==
    IF session.error THEN Err("auth", 0, "")
    ELSE IF session.user = "" THEN Err("no_user", 0, "")
    ELSE IF session.user # userId THEN Err("mismatch", 0, "")
    ELSE NoErr

\* faulty variant of ConnectedRow: the row has the shape of a connection attempt
ConnectedRowAsAttempt(userId) ==
    [user_id |-> userId, broker_id |-> "snaptrade", api_key |-> "pending_connection",
     api_secret_encrypted |-> "pending_connection", is_active |-> "false",
     broker_data |-> "connection_started"]

\* lines 82-88
ConnectedRow(userId) ==
    [user_id |-> userId, broker_id |-> "snaptrade", api_key |-> "snaptrade_connection",
     api_secret_encrypted |-> "snaptrade_connection", is_active |-> "unset",
     broker_data |-> "connected_at"]

\* faulty variant of AssetRow: the row is owned by nobody
AssetRowUnowned(holding, categoryId, sessionUser, accountIdParam) ==
    [name |-> holding.name,
     value |-> holding.totalValue,
     description |-> <<holding.quantity, "shares of", holding.symbol>>,
     location |-> IF holding.brokerName # "" THEN holding.brokerName ELSE "SnapTrade",
     acquisition_value |-> holding.purchasePrice * holding.quantity,
     category_id |-> categoryId,
     is_liability |-> FALSE,
     user_id |-> "",
     symbol |-> holding.symbol,
     price_per_share |-> holding.pricePerShare,
     purchase_price |-> holding.purchasePrice,
     quantity |-> holding.quantity,
     currency |-> "USD",
     asset_type |-> IF holding.symbol = "CASH" THEN "cash" ELSE "stock",
     source |-> "snaptrade",
     account_id |-> IF holding.accountId # "" THEN holding.accountId
                    ELSE IF accountIdParam # "" THEN accountIdParam ELSE "default",
     account_name |-> IF holding.accountName # "" THEN holding.accountName
                      ELSE "Investment Account",
     broker_name |-> IF holding.brokerName # "" THEN holding.brokerName ELSE "SnapTrade"]

\* lines 127-149
AssetRow(holding, categoryId, sessionUser, accountIdParam) ==
    [name |-> holding.name,
     value |-> holding.totalValue,
     description |-> <<holding.quantity, "shares of", holding.symbol>>,
     location |-> IF holding.brokerName # "" THEN holding.brokerName ELSE "SnapTrade",
     acquisition_value |-> holding.purchasePrice * holding.quantity,
     category_id |-> categoryId,
     is_liability |-> FALSE,
     user_id |-> sessionUser,
     symbol |-> holding.symbol,
     price_per_share |-> holding.pricePerShare,
     purchase_price |-> holding.purchasePrice,
     quantity |-> holding.quantity,
     currency |-> "USD",
     asset_type |-> IF holding.symbol = "CASH" THEN "cash" ELSE "stock",
     source |-> "snaptrade",
     account_id |-> IF holding.accountId # "" THEN holding.accountId
                    ELSE IF accountIdParam # "" THEN accountIdParam ELSE "default",
     account_name |-> IF holding.accountName # "" THEN holding.accountName
                      ELSE "Investment Account",
     broker_name |-> IF holding.brokerName # "" THEN holding.brokerName ELSE "SnapTrade"]

\* faulty variant of CbFail: the failure leaves the handler, no redirect is made
CbFailEscapes(c, err) == [c EXCEPT !.pc = "done", !.err = err]

\* faulty variant of WithConnection: the user's pending row is completed in place
WithConnectionReconciled(rows, row) ==
    IF \E i \in 1 .. Len(rows) : rows[i].user_id = row.user_id /\ rows[i].is_active = "false"
    THEN LET i == CHOOSE i \in 1 .. Len(rows) :
                      rows[i].user_id = row.user_id /\ rows[i].is_active = "false"
         IN [rows EXCEPT ![i] = row]
    ELSE Append(rows, row)

\* lines 80-88: .from("broker_connections").insert(row) adds a row, whatever
\* rows the table has
WithConnection(rows, row) == Append(rows, row)

\* faulty variant of WithAsset: a holding the user already has is skipped
WithAssetOnce(rows, row) ==
    IF \E i \in 1 .. Len(rows) :
          /\ rows[i].user_id = row.user_id
          /\ rows[i].symbol = row.symbol
          /\ rows[i].account_id = row.account_id
    THEN rows
    ELSE Append(rows, row)

\* lines 125-149: .from("assets").insert(row) adds a row, whatever rows the
\* table has
WithAsset(rows, row) == Append(rows, row)

\* faulty variant of CbCaught: the rows the request wrote are taken back
CbCaughtRolledBack(tables) == DbEmpty

\* lines 163-175: the outer catch logs and redirects; it deletes no row
CbCaught(tables) == tables

\* lines 163-175: the outer catch
CbFail(c, err) == [c EXCEPT !.pc = "done", !.redirect = RedirectError, !.err = err]

\* faulty variant of CbSucceed: an insert that returned an error makes the
\* import end with the error redirect
CbSucceedUnlessInsertFailed(c) ==
    IF \E i \in 1 .. Len(c.log) : c.log[i] = "console.error"
    THEN [c EXCEPT !.pc = "done", !.redirect = RedirectError, !.err = Err("insert", 0, "")]
    ELSE [c EXCEPT !.pc = "done", !.redirect = RedirectSuccess]

\* lines 156-162
CbSucceed(c) == [c EXCEPT !.pc = "done", !.redirect = RedirectSuccess]

\* lines 9-42: the request arrives; the early exits
CbRequest ==
    /\ cb.pc = "idle"
    /\ \E userId \in Users \cup {""}, accountId \in AccountIdParams,
          success \in BOOLEAN, code \in Codes, session \in Sessions :
          LET c == [cb EXCEPT !.userId = userId, !.accountId = accountId,
                              !.success = success, !.code = code, !.session = session]
              exit == EarlyExit(userId, success, code)
          IN cb' = IF exit # "" THEN [c EXCEPT !.pc = "done", !.redirect = exit]
                   ELSE [c EXCEPT !.pc = "auth"]
    /\ UNCHANGED <<CLIENT_ID, CONSUMER_KEY, useProxy, dlg, post, waiting, wire, rt, lk, hd, hc, db>>

\* faulty variant of CbAfterSession: the code is exchanged before the session
\* is checked
CbAfterSessionCodeFirst(failure, code) ==
    IF code # "" THEN "exchange"
    ELSE IF failure # NoErr THEN "catch"
    ELSE "holdings"

\* lines 54-74: where the handler goes once getUser has settled: to the outer
\* catch when the session check throws, else to the code exchange or, without
\* a code, straight to the holdings
CbAfterSession(failure, code) ==
    IF failure # NoErr THEN "catch"
    ELSE IF code = "" THEN "holdings"
    ELSE "exchange"

\* lines 44-95: createClient and getUser have settled; the session check and,
\* with a code, handleSnapTradeCallback and the request to insert the connection
CbAuth ==
    /\ cb.pc = "auth"
    /\ LET c == [cb EXCEPT !.log = Append(@, "getUser")]
           failure == SessionCheck(cb.session, cb.userId)
           step == CbAfterSession(failure, cb.code)
           exchanged == HandleCallback(CLIENT_ID, CONSUMER_KEY)
           withCode == [c EXCEPT !.log = Append(@, "handleSnapTradeCallback")]
       IN IF step = "catch"
          THEN cb' = CbFail(c, failure) /\ hc' = hc
          ELSE IF step = "holdings"
          THEN cb' = [c EXCEPT !.pc = "holdings"] /\ hc' = hc
          ELSE /\ hc' = exchanged
               /\ cb' = IF exchanged.pc = "thrown" THEN CbFail(withCode, exchanged.err)
                        ELSE IF exchanged.success THEN [withCode EXCEPT !.pc = "connect"]
                        ELSE [withCode EXCEPT !.pc = "holdings"]
    /\ UNCHANGED <<CLIENT_ID, CONSUMER_KEY, useProxy, dlg, post, waiting, wire, rt, lk, hd, db>>

\* lines 80-93: the insert into broker_connections has settled
CbConnectionInsert ==
    /\ cb.pc = "connect"
    /\ \E failed \in BOOLEAN :
          LET c == [cb EXCEPT !.log = Append(@, "insert broker_connections")]
          IN IF failed
             THEN cb' = CbFail(c, Err("connection", 0, "")) /\ db' = db
             ELSE /\ cb' = [c EXCEPT !.pc = "holdings"]
                  /\ db' = [db EXCEPT !.broker_connections =
                                WithConnection(@, ConnectedRow(cb.userId))]
    /\ UNCHANGED <<CLIENT_ID, CONSUMER_KEY, useProxy, dlg, post, waiting, wire, rt, lk, hd, hc>>

\* lines 97-100: fetchSnapTradeHoldings(userId) has settled
CbHoldings ==
    /\ cb.pc = "holdings"
    /\ \E script \in HoldingsScripts :
          LET ran == HdRun(HdEnter(cb.userId, CLIENT_ID, CONSUMER_KEY), script)
              c == [cb EXCEPT !.log = Append(@, "fetchSnapTradeHoldings")]
          IN /\ ran.pc \in {"returned", "thrown"}
             /\ hd' = ran
             /\ cb' = IF ran.pc = "thrown" THEN CbFail(c, ran.err)
                      ELSE [c EXCEPT !.pc = "category", !.holdings = ran.result]
             /\ db' = IF ran.pc = "thrown" THEN CbCaught(db) ELSE db
    /\ UNCHANGED <<CLIENT_ID, CONSUMER_KEY, useProxy, dlg, post, waiting, wire, rt, lk, hc>>

\* lines 103-121: the category lookup has settled; an empty import is over
CbCategory ==
    /\ cb.pc = "category"
    /\ \E found \in {"error", "none", "row"} :
          LET c == [cb EXCEPT !.log = Append(@, "select asset_categories")]
          IN /\ cb' = CASE found = "error" -> CbFail(c, Err("category", 0, ""))
                        [] found = "none" -> CbFail(c, Err("category_missing", 0, ""))
                        [] OTHER ->
                             IF cb.holdings = <<>>
                             THEN CbSucceed([c EXCEPT !.categoryId = "investments-id"])
                             ELSE [c EXCEPT !.pc = "insert", !.k = 1,
                                            !.categoryId = "investments-id"]
             /\ db' = IF found = "row" THEN db ELSE CbCaught(db)
    /\ UNCHANGED <<CLIENT_ID, CONSUMER_KEY, useProxy, dlg, post, waiting, wire, rt, lk, hd, hc>>

\* faulty variant of CbOnInsert: a failed insert ends the loop
CbOnInsertStopOnError(c, failed) ==
    LET logged == [c EXCEPT !.k = c.k + 1,
                            !.log = IF failed THEN @ \o <<"insert assets", "console.error">>
                                    ELSE Append(@, "insert assets")]
    IN IF failed \/ c.k = Len(c.holdings) THEN CbSucceed(logged) ELSE logged

\* lines 121-162: the activation after the insert of the k-th holding has
\* settled: an error is logged and the loop goes on; after the last holding,
\* the success redirect
CbOnInsert(c, failed) ==
    LET logged == [c EXCEPT !.k = c.k + 1,
                            !.log = IF failed THEN @ \o <<"insert assets", "console.error">>
                                    ELSE Append(@, "insert assets")]
    IN IF c.k = Len(c.holdings) THEN CbSucceed(logged) ELSE logged

\* lines 121-162: the insert of the k-th holding has settled: the row is
\* written, or the client returns {error}, or (the client library permitting)
\* the awaited promise rejects and the outer catch of lines 163-175 takes over
CbInsertAsset ==
    /\ cb.pc = "insert"
    /\ \E outcome \in {"inserted", "error", "rejected"} :
          /\ db' = IF outcome = "error" THEN db
                   ELSE IF outcome = "rejected" THEN CbCaught(db)
                   ELSE [db EXCEPT !.assets =
                            WithAsset(@, AssetRow(cb.holdings[cb.k], cb.categoryId,
                                                  cb.session.user, cb.accountId))]
          /\ cb' = IF outcome = "rejected"
                   THEN CbFail([cb EXCEPT !.log = @ \o <<"insert assets", "rejected">>],
                               Err("insert", 0, ""))
                   ELSE CbOnInsert(cb, outcome = "error")
    /\ UNCHANGED <<CLIENT_ID, CONSUMER_KEY, useProxy, dlg, post, waiting, wire, rt, lk, hd, hc>>

CbNext ==
    \/ CbRequest \/ CbAuth \/ CbConnectionInsert
    \/ CbHoldings \/ CbCategory \/ CbInsertAsset

-----------------------------------------------------------------------------
(* POST connection-link route (src/unnamed/part_001, lines 50-169) *)

CallbackUrlParams == {"", CallbackUrl}

\* NextResponse.json(body, {status}): the body is {redirectUri} or {error}
Reply(status, redirectUri, error) ==
    [status |-> status, redirectUri |-> redirectUri, error |-> error]

NoReply == Reply(0, "", NoErr)

\* parsed tells whether request.json() gave an object to destructure
PostIdle ==
    [pc |-> "idle", parsed |-> FALSE, userId |-> "", brokerId |-> "", callbackUrl |-> "",
     reply |-> NoReply, log |-> <<>>]

\* faulty variant of PendingRow: the attempt is recorded as an active connection
PendingRowActive(userId, brokerId) ==
    [user_id |-> userId,
     broker_id |-> IF brokerId # "" THEN brokerId ELSE "snaptrade",
     api_key |-> "pending_connection",
     api_secret_encrypted |-> "pending_connection",
     is_active |-> "true",
     broker_data |-> "connection_started"]

\* the row of the connection attempt, lines 99-106
PendingRow(userId, brokerId) ==
    [user_id |-> userId,
     broker_id |-> IF brokerId # "" THEN brokerId ELSE "snaptrade",
     api_key |-> "pending_connection",
     api_secret_encrypted |-> "pending_connection",
     is_active |-> "false",
     broker_data |-> "connection_started"]

\* faulty variant of PostValidate: the callback URL is not required
PostValidateUserOnly(parsed, userId, callbackUrl) ==
    IF ~parsed THEN Reply(500, "", Err("request", 0, ""))
    ELSE IF userId = "" THEN Reply(400, "", Err("user_required", 0, ""))
    ELSE NoReply

\* lines 59-74 and 152-167: the reply that ends the request before the adapter
\* is called, NoReply when the request goes on
PostValidate(parsed, userId, callbackUrl) ==
    IF ~parsed THEN Reply(500, "", Err("request", 0, ""))
    ELSE IF userId = "" THEN Reply(400, "", Err("user_required", 0, ""))
    ELSE IF callbackUrl = "" THEN Reply(400, "", Err("callback_required", 0, ""))
    ELSE NoReply

\* errorMessage.includes("<!DOCTYPE") || errorMessage.includes("<html").  The
\* adapter's own HTML error carries the first 100 characters of the text; the
\* message of the SyntaxError of response.json() carries the start of the text
\* on some engines and only a position on others: quotes tells which (and, for
\* a text that starts with whitespace, whether the marker is in the part quoted).
MessageNamesHtml(err, quotes) ==
    CASE err.kind = "html" -> err.form \in {"doctype", "html"} \/ quotes
      [] err.kind = "syntax" -> err.form \in HtmlForms /\ quotes
      [] OTHER -> FALSE

\* lines 124-167: the inner catch answers 502 for a message that names HTML
\* and rethrows anything else to the outer catch, which answers 500
PostCatch(err, quotes) ==
    IF MessageNamesHtml(err, quotes)
    THEN Reply(502, "", Err("html", 0, ""))
    ELSE Reply(500, "", err)

\* lines 114-123
PostSuccess(redirectUri) == Reply(200, redirectUri, NoErr)

\* faulty variant of PostAfterRecord: a failed insert fails the request
PostAfterRecordStrict(redirectUri, outcome) ==
    IF outcome = "written" THEN PostSuccess(redirectUri)
    ELSE Reply(500, "", Err("connection", 0, ""))

\* lines 95-123: the inner try/catch around the insert only logs, and the
\* reply that follows it does not depend on how the insert settled
PostAfterRecord(redirectUri, outcome) == PostSuccess(redirectUri)

PostDone(p, reply) == [p EXCEPT !.pc = "done", !.reply = reply]

\* lines 58-92: the request arrives; validation and the call of the adapter up
\* to its first request
PostRequest ==
    /\ post.pc = "idle" /\ lk.pc = "idle" /\ rt.pc = "idle"
    /\ \E parsed \in BOOLEAN, userId \in Users \cup {""},
          callbackUrl \in CallbackUrlParams, brokerId \in BrokerIds :
          LET p == [post EXCEPT !.parsed = parsed,
                                !.userId = IF parsed THEN userId ELSE "",
                                !.callbackUrl = IF parsed THEN callbackUrl ELSE "",
                                !.brokerId = IF parsed THEN brokerId ELSE ""]
              early == PostValidate(parsed, p.userId, p.callbackUrl)
              entered == LkEnter(p.userId, p.callbackUrl, p.brokerId, CLIENT_ID, CONSUMER_KEY)
          IN IF early # NoReply
             THEN post' = PostDone(p, early) /\ lk' = lk /\ rt' = rt
             ELSE /\ post' = [p EXCEPT !.pc = "link",
                                       !.log = Append(@, "createSnapTradeUserLink")]
                  /\ lk' = entered
                  /\ rt' = IF entered.pc = "register"
                           THEN RtStart(LinkUrl(useProxy, "registerUser"), "",
                                        DefaultRetries, DefaultDelay)
                           ELSE rt
    /\ UNCHANGED <<CLIENT_ID, CONSUMER_KEY, useProxy, dlg, wire, hd, hc, cb, db, waiting>>

\* lines 88-94 and 124-167: createSnapTradeUserLink has settled
PostLinkDone ==
    /\ post.pc = "link"
    /\ lk.pc \in {"returned", "thrown"}
    /\ \E quotes \in BOOLEAN :
          post' = IF lk.pc = "thrown" THEN PostDone(post, PostCatch(lk.err, quotes))
                  ELSE [post EXCEPT !.pc = "record"]
    /\ UNCHANGED <<CLIENT_ID, CONSUMER_KEY, useProxy, dlg, wire, rt, lk, hd, hc, cb, db, waiting>>

\* lines 95-123: the attempt to record the connection has settled: the row is
\* written, or the insert resolved with an error (not inspected), or
\* createClient or the insert threw (logged); the reply is the same
PostRecordDone ==
    /\ post.pc = "record"
    /\ \E outcome \in {"written", "error", "thrown"} :
          /\ db' = IF outcome = "written"
                   THEN [db EXCEPT !.broker_connections =
                            Append(@, PendingRow(post.userId, post.brokerId))]
                   ELSE db
          /\ post' = PostDone([post EXCEPT !.log =
                                  IF outcome = "thrown"
                                  THEN @ \o <<"insert broker_connections", "console.error">>
                                  ELSE Append(@, "insert broker_connections")],
                              PostAfterRecord(lk.result, outcome))
    /\ UNCHANGED <<CLIENT_ID, CONSUMER_KEY, useProxy, dlg, wire, rt, lk, hd, hc, cb, waiting>>

PostNext ==
    \/ PostRequest \/ PostLinkDone \/ PostRecordDone
    \/ LkRegisterDone \/ LkPortalDone \/ RtNext

-----------------------------------------------------------------------------
(* AddAssetButton, the add-asset dialog (src/unnamed/part_000, lines 52-673) *)
(* with the BrokerSelection component it renders.                           *)

AssetTypes == {"stocks", "crypto", "homes", "cars", "metals", "domains", "cash", "manually"}
Categories == {"traditional", "crypto"}

\* history of the last control used, kept for the claims about Back and close:
\* the screens are "types", "options", "stockSearch", "cryptoSearch",
\* "cryptoBroker", "categories", "brokers", "metals", "cars" and "form"
Control(kind, screen, origin, entered) == [kind |-> kind, screen |-> screen, origin |-> origin, entered |-> entered]

NoControl == Control("none", "none", "none", {})

\* lines 89-96 and 148-156: the useState declarations; selectedCategory is the
\* state of BrokerSelection ("" is null).  awaitingUser is the asset type that
\* a handleStocksOptionSelect waiting for getUser() has captured ("" when none
\* is waiting), linking tells that createSnapTradeUserLink has not settled,
\* location is window.location.href ("" while the page stays), calls are the
\* calls made for linking.  last is history: the control used last.
DlgIdle ==
    [open |-> FALSE,
     showAssetTypes |-> TRUE, showStocksOptions |-> FALSE, showStockSearch |-> FALSE,
     showCryptoSearch |-> FALSE, showBrokerSelection |-> FALSE,
     showSnapTradeBrokerSelection |-> FALSE, showMetalsForm |-> FALSE,
     showCarSearch |-> FALSE,
     selectedAssetType |-> "", activeTab |-> "cash", isLinking |-> FALSE,
     selectedCategory |-> "", awaitingUser |-> "", linking |-> FALSE,
     location |-> "", calls |-> {}, last |-> NoControl]

\* lines 324-668: the screens the JSX renders for the flags
Rendered(d) ==
    (IF d.showAssetTypes THEN {"types"} ELSE {})
    \cup (IF d.showStocksOptions THEN {"options"} ELSE {})
    \cup (IF d.showStockSearch THEN {"stockSearch"} ELSE {})
    \cup (IF d.showCryptoSearch THEN {"cryptoSearch"} ELSE {})
    \cup (IF d.showBrokerSelection THEN {"cryptoBroker"} ELSE {})
    \cup (IF d.showSnapTradeBrokerSelection
          THEN IF d.selectedCategory = "" THEN {"categories"} ELSE {"brokers"}
          ELSE {})
    \cup (IF d.showMetalsForm THEN {"metals"} ELSE {})
    \cup (IF d.showCarSearch THEN {"cars"} ELSE {})
    \cup (IF /\ ~d.showAssetTypes /\ ~d.showStocksOptions /\ ~d.showStockSearch
             /\ ~d.showCryptoSearch /\ ~d.showBrokerSelection /\ ~d.showMetalsForm
             /\ ~d.showCarSearch
          THEN {"form"} ELSE {})

\* the user can use a control of the screen
CanUse(screen) == dlg.open /\ dlg.location = "" /\ screen \in Rendered(dlg)

\* BrokerSelection loses its state when it is not rendered
Unmounted(d) ==
    [d EXCEPT !.selectedCategory =
        IF d.open /\ d.showSnapTradeBrokerSelection THEN @ ELSE ""]

\* history: a control of the screen origin brought the entered screens up; a
\* step that brings up no screen leaves the screens of the step before entered
Forward(d, origin) ==
    LET u == Unmounted(d)
        entered == Rendered(u) \ Rendered(dlg)
    IN [u EXCEPT !.last =
           IF entered = {} /\ dlg.last.kind = "go"
           THEN [dlg.last EXCEPT !.entered = @ \cap Rendered(u)]
           ELSE Control("go", origin, origin, entered)]

\* history: the Back control of the screen was used; origin is the screen from
\* which the screen was entered, known when that was the step before
WentBack(d, screen) ==
    [Unmounted(d) EXCEPT !.last =
        Control("back", screen,
                IF dlg.last.kind = "go" /\ screen \in dlg.last.entered
                THEN dlg.last.origin ELSE "unknown", {})]

\* lines 98-107
handleClose(d) ==
    [d EXCEPT !.open = FALSE, !.showAssetTypes = TRUE, !.showStocksOptions = FALSE,
              !.showStockSearch = FALSE, !.showCryptoSearch = FALSE,
              !.showBrokerSelection = FALSE, !.showMetalsForm = FALSE,
              !.showCarSearch = FALSE]

\* lines 109-146
handleAssetTypeSelect(d, type) ==
    LET t == [d EXCEPT !.selectedAssetType = type]
    IN CASE type \in {"stocks", "crypto"} ->
              [t EXCEPT !.showStocksOptions = TRUE, !.showAssetTypes = FALSE]
         [] type = "metals" ->
              [t EXCEPT !.showStocksOptions = FALSE, !.showAssetTypes = FALSE,
                        !.showMetalsForm = TRUE]
         [] type = "cars" ->
              [t EXCEPT !.showStocksOptions = FALSE, !.showAssetTypes = FALSE,
                        !.showCarSearch = TRUE]
         [] OTHER ->
              [t EXCEPT !.showStocksOptions = FALSE, !.showAssetTypes = FALSE,
                        !.activeTab = CASE type = "homes" -> "real-estate"
                                        [] type = "cash" -> "cash"
                                        [] OTHER -> "investments"]

NotDialog == <<CLIENT_ID, CONSUMER_KEY, useProxy, wire, rt, lk, hd, hc, cb, db, post, waiting>>

\* line 316: the trigger opens the dialog, Escape or the close button hides it
DlgOpenChange ==
    /\ dlg.location = ""
    /\ dlg' = Unmounted([dlg EXCEPT !.open = ~@, !.last = NoControl])
    /\ UNCHANGED NotDialog

\* line 338: a button of the asset-type screen
DlgAssetType ==
    /\ CanUse("types")
    /\ \E type \in AssetTypes : dlg' = Forward(handleAssetTypeSelect(dlg, type), "types")
    /\ UNCHANGED NotDialog

\* lines 361-364: Back to Types on the link/manual screen
DlgOptionsBack ==
    /\ CanUse("options")
    /\ dlg' = WentBack([dlg EXCEPT !.showStocksOptions = FALSE, !.showAssetTypes = TRUE],
                       "options")
    /\ UNCHANGED NotDialog

\* lines 176-215 and 376-397: a button of the link/manual screen, up to the
\* await of handleStocksOptionSelect; without the credentials the link button
\* only alerts
DlgOption ==
    /\ CanUse("options")
    /\ \E option \in {"link", "manual"} :
          LET hidden == [dlg EXCEPT !.showStocksOptions = FALSE]
          IN CASE option = "manual" ->
                    dlg' = Forward(IF dlg.selectedAssetType = "crypto"
                                   THEN [hidden EXCEPT !.showCryptoSearch = TRUE]
                                   ELSE [hidden EXCEPT !.showStockSearch = TRUE],
                                   "options")
               [] option = "link" ->
                    /\ ~dlg.isLinking
                    /\ dlg.awaitingUser = ""
                    /\ dlg' = IF CLIENT_ID = "" \/ CONSUMER_KEY = ""
                              THEN [dlg EXCEPT !.last = NoControl]
                              ELSE Forward([hidden EXCEPT !.awaitingUser =
                                                dlg.selectedAssetType], "options")
    /\ UNCHANGED NotDialog

\* lines 186-209: supabase.auth.getUser() has settled
DlgUserSettled ==
    /\ dlg.awaitingUser # ""
    /\ dlg.location = ""
    /\ \E user \in BOOLEAN :
          LET d == [dlg EXCEPT !.awaitingUser = ""]
          IN dlg' = IF ~user THEN Forward([d EXCEPT !.isLinking = FALSE], "options")
                    ELSE IF dlg.awaitingUser = "crypto"
                    THEN Forward([d EXCEPT !.showBrokerSelection = TRUE,
                                           !.isLinking = FALSE], "options")
                    ELSE Forward([d EXCEPT !.showSnapTradeBrokerSelection = TRUE],
                                 "options")
    /\ UNCHANGED NotDialog

\* lines 434-437
DlgStockSearchBack ==
    /\ CanUse("stockSearch")
    /\ dlg' = WentBack([dlg EXCEPT !.showStockSearch = FALSE, !.showStocksOptions = TRUE],
                       "stockSearch")
    /\ UNCHANGED NotDialog

\* lines 463-466
DlgCryptoSearchBack ==
    /\ CanUse("cryptoSearch")
    /\ dlg' = WentBack([dlg EXCEPT !.showCryptoSearch = FALSE, !.showStocksOptions = TRUE],
                       "cryptoSearch")
    /\ UNCHANGED NotDialog

\* lines 482-485: onBack of ConnectCryptoBroker
DlgCryptoBrokerBack ==
    /\ CanUse("cryptoBroker")
    /\ dlg' = WentBack([dlg EXCEPT !.showBrokerSelection = FALSE,
                                   !.showStocksOptions = TRUE], "cryptoBroker")
    /\ UNCHANGED NotDialog

\* lines 494-497: onBack of BrokerSelection, the Back of its category screen
DlgCategoriesBack ==
    /\ CanUse("categories")
    /\ dlg' = WentBack([dlg EXCEPT !.showSnapTradeBrokerSelection = FALSE,
                                   !.showStocksOptions = TRUE], "categories")
    /\ UNCHANGED NotDialog

\* BrokerSelection: a category is chosen
DlgCategory ==
    /\ CanUse("categories")
    /\ \E category \in Categories :
          dlg' = Forward([dlg EXCEPT !.selectedCategory = category], "categories")
    /\ UNCHANGED NotDialog

\* BrokerSelection: the Back of the broker list
DlgBrokersBack ==
    /\ CanUse("brokers")
    /\ dlg' = WentBack([dlg EXCEPT !.selectedCategory = ""], "brokers")
    /\ UNCHANGED NotDialog

\* lines 498-510: onSelect of BrokerSelection: a broker of the list is chosen
\* and createSnapTradeUserLink is called in the browser
DlgBroker ==
    /\ CanUse("brokers")
    /\ ~dlg.linking
    /\ dlg' = Forward([dlg EXCEPT !.showSnapTradeBrokerSelection = FALSE,
                                  !.isLinking = TRUE, !.linking = TRUE,
                                  !.calls = @ \cup {"createSnapTradeUserLink"}],
                      "brokers")
    /\ UNCHANGED NotDialog

\* lines 510-527: createSnapTradeUserLink has settled: the browser goes to the
\* URL it returned, or the failure is alerted
DlgLinkSettled ==
    /\ dlg.linking
    /\ dlg.location = ""
    /\ \E returned \in BOOLEAN :
          LET d == [dlg EXCEPT !.linking = FALSE]
          IN /\ returned => LkEnter("u1", CallbackUrl, "questrade", CLIENT_ID, CONSUMER_KEY).pc # "thrown"
             /\ dlg' = IF returned
                       THEN [d EXCEPT !.location = PortalUrl, !.last = NoControl]
                       ELSE Forward([d EXCEPT !.isLinking = FALSE,
                                              !.showStocksOptions = TRUE], "brokers")
    /\ UNCHANGED NotDialog

\* lines 546-549
DlgMetalsBack ==
    /\ CanUse("metals")
    /\ dlg' = WentBack([dlg EXCEPT !.showMetalsForm = FALSE, !.showAssetTypes = TRUE],
                       "metals")
    /\ UNCHANGED NotDialog

\* lines 575-578
DlgCarBack ==
    /\ CanUse("cars")
    /\ dlg' = WentBack([dlg EXCEPT !.showCarSearch = FALSE, !.showAssetTypes = TRUE],
                       "cars")
    /\ UNCHANGED NotDialog

\* lines 615-621: the Back of the generic form
DlgFormBack ==
    /\ CanUse("form")
    /\ dlg' = WentBack(IF dlg.selectedAssetType = "stocks"
                       THEN [dlg EXCEPT !.showStocksOptions = TRUE]
                       ELSE [dlg EXCEPT !.showAssetTypes = TRUE], "form")
    /\ UNCHANGED NotDialog

\* lines 557 and 632-662: onSuccess of AddMetalForm and of AddAssetForm
DlgFormSuccess ==
    /\ CanUse("metals") \/ CanUse("form")
    /\ dlg' = Unmounted([handleClose(dlg) EXCEPT !.last = Control("close", "none", "none", {})])
    /\ UNCHANGED NotDialog

\* lines 217-245: handleStockSelect, handleCryptoSelect and handleCarSelect
DlgItemSelected ==
    /\ \E screen \in {"stockSearch", "cryptoSearch", "cars"} :
          /\ CanUse(screen)
          /\ LET d == CASE screen = "stockSearch" -> [dlg EXCEPT !.showStockSearch = FALSE]
                        [] screen = "cryptoSearch" -> [dlg EXCEPT !.showCryptoSearch = FALSE]
                        [] OTHER -> [dlg EXCEPT !.showCarSearch = FALSE]
             IN dlg' = Unmounted([handleClose(d) EXCEPT !.location = "/dashboard/assets",
                                                        !.last = Control("close", "none", "none", {})])
    /\ UNCHANGED NotDialog

DlgNext ==
    \/ DlgOpenChange \/ DlgAssetType \/ DlgOptionsBack \/ DlgOption \/ DlgUserSettled
    \/ DlgStockSearchBack \/ DlgCryptoSearchBack \/ DlgCryptoBrokerBack
    \/ DlgCategoriesBack \/ DlgCategory \/ DlgBrokersBack \/ DlgBroker \/ DlgLinkSettled
    \/ DlgMetalsBack \/ DlgCarBack \/ DlgFormBack \/ DlgFormSuccess \/ DlgItemSelected

-----------------------------------------------------------------------------
(* The adapter: one operation of src/src/utils/snaptrade.ts per behaviour *)

Init ==
    /\ CLIENT_ID \in {"", "client-id"}
    /\ CONSUMER_KEY \in {"", "consumer-key"}
    /\ useProxy \in BOOLEAN
    /\ wire = <<>>
    /\ rt = RtIdle
    /\ lk = LkIdle
    /\ hd = HdIdle
    /\ hc = HcIdle
    /\ cb = CbIdle
    /\ db = DbEmpty
    /\ post = PostIdle
    /\ waiting = CbIdle
    /\ dlg = DlgIdle

Next == FwrCall \/ RtNext \/ LkNext \/ HdNext \/ HcCall

Spec == Init /\ [][Next]_vars

-----------------------------------------------------------------------------
(* fetchWithRetry alone: one call per behaviour with arbitrary arguments;   *)
(* every fetch settles and every timer fires                               *)

RetryNext == FwrCall \/ RtNext

SpecRetry == Init /\ [][RetryNext]_vars /\ WF_vars(RtNext)

-----------------------------------------------------------------------------
(* The callback route: one request per behaviour, on the server *)

InitCallback ==
    /\ CLIENT_ID \in {"", "client-id"}
    /\ CONSUMER_KEY \in {"", "consumer-key"}
    /\ useProxy = FALSE
    /\ wire = <<>>
    /\ rt = RtIdle
    /\ lk = LkIdle
    /\ hd = HdIdle
    /\ hc = HcIdle
    /\ cb = CbIdle
    /\ db = DbEmpty
    /\ post = PostIdle
    /\ waiting = CbIdle
    /\ dlg = DlgIdle

SpecCallback == InitCallback /\ [][CbNext]_vars

\* every awaited call of the handler settles
SpecCallbackFair == SpecCallback /\ WF_vars(CbNext)

-----------------------------------------------------------------------------
(* The connection-link route: one request per behaviour, on the server *)

InitConnect == InitCallback

SpecConnect == InitConnect /\ [][PostNext]_vars

-----------------------------------------------------------------------------
(* The two routes on one database, on the server with the credentials      *)
(* configured: connection-link requests, one at a time while no row is     *)
(* recorded, and then a callback request that is made twice, the second    *)
(* time after the first has ended or interleaved with it at the awaits.    *)

InitSystem ==
    /\ InitCallback
    /\ CLIENT_ID # ""
    /\ CONSUMER_KEY # ""

\* part_001 lines 114-167: the reply is sent and the activation of the
\* connection-link route, with the adapter call it made, is over
SysPostReturns ==
    /\ post.pc = "done"
    /\ post' = PostIdle
    /\ lk' = LkIdle
    /\ rt' = RtIdle
    /\ wire' = <<>>
    /\ UNCHANGED <<CLIENT_ID, CONSUMER_KEY, useProxy, dlg, hd, hc, cb, db, waiting>>

\* the handler that was running awaits (or has returned) and the event loop
\* runs the other callback request: a new one, or one whose awaited call settled
SysSwitch ==
    /\ post.pc = "idle"
    /\ cb.pc # "idle"
    /\ waiting.pc # "done"
    /\ cb' = waiting
    /\ waiting' = cb
    /\ UNCHANGED <<CLIENT_ID, CONSUMER_KEY, useProxy, dlg, wire, rt, lk, hd, hc, db, post>>

\* the second callback request is the first one again: the same URL, requested
\* with the same cookies
SameRequest(c, d) ==
    /\ c.userId = d.userId
    /\ c.accountId = d.accountId
    /\ c.success = d.success
    /\ c.code = d.code
    /\ c.session = d.session

\* connection-link requests come first, while nothing is recorded
SysLink ==
    /\ cb.pc = "idle"
    /\ waiting.pc = "idle"
    /\ db = DbEmpty
    /\ PostNext

SysCallback ==
    /\ post.pc = "idle"
    /\ CbNext
    /\ (waiting.pc # "idle" => SameRequest(cb', waiting))

SystemNext == SysLink \/ SysPostReturns \/ SysCallback \/ SysSwitch

SpecSystem == InitSystem /\ [][SystemNext]_vars

-----------------------------------------------------------------------------
(* The add-asset dialog in the browser *)

InitDialog == Init /\ useProxy

SpecDialog == InitDialog /\ [][DlgNext]_vars

-----------------------------------------------------------------------------
(* Reading the network log *)

LastSent == wire[Len(wire)]

PortalUrls == {"connectionPortal", "relay:connectionPortal"}
LinkUrls == PortalUrls \cup {"registerUser", "relay:registerUser"}
BalancesUrls == {"balances:" \o AccountNames[i] : i \in DOMAIN AccountNames}
HoldingsUrls == {"holdings:" \o AccountNames[i] : i \in DOMAIN AccountNames}

\* the entries of the log that belong to the call fetchWithRetry is running:
\* the trailing entries with its url
RECURSIVE TrailingOf(_, _)
TrailingOf(log, url) ==
    IF log = <<>> \/ log[Len(log)].url # url THEN <<>>
    ELSE Append(TrailingOf(SubSeq(log, 1, Len(log) - 1), url), log[Len(log)])

RECURSIVE Power2(_)
Power2(n) == IF n <= 0 THEN 1 ELSE 2 * Power2(n - 1)

CalledWithDefaults ==
    rt.pc # "idle" /\ rt.stack[1] = Frame(DefaultRetries, DefaultDelay)

-----------------------------------------------------------------------------
(* C1: when every attempt of a fetchWithRetry call with the default        *)
(* arguments (retries 3, delay 1000) fails at transport level, exactly 4   *)
(* attempts are made, the waits between them are 1000, 2000 and 4000 ms in *)
(* that order, and the error thrown is the error of the fourth attempt.    *)
C1_FourAttemptsThenLastError ==
    CalledWithDefaults =>
        /\ rt.attempts <= 4
        /\ \A k \in 1 .. Len(rt.waits) : rt.waits[k] = 1000 * Power2(k - 1)
        /\ rt.pc = "sleep" => Len(rt.waits) = rt.attempts
        /\ rt.pc = "thrown" =>
              /\ rt.attempts = 4
              /\ rt.waits = <<1000, 2000, 4000>>
              /\ rt.err = TransportError(4)
              /\ LET mine == TrailingOf(wire, rt.url)
                 IN /\ Len(mine) = 4
                    /\ \A k \in 1 .. 4 : mine[k].kind = "fail"
                    /\ mine[4].err = rt.err

C1_Witness ==
    /\ CalledWithDefaults
    /\ rt.pc = "thrown"
    /\ rt.attempts = 4

(* C2: a non-2xx response ends the call on the attempt that received it:   *)
(* it is returned unchanged, no wait follows it and no request follows it, *)
(* whatever retry budget is left.                                          *)
C2_StatusIsNotRetried ==
    /\ (rt.pc = "returned" /\ ~IsOk(rt.resp.status)) =>
          /\ LastSent.kind = "resp"
          /\ LastSent.resp = rt.resp
          /\ Len(rt.waits) = rt.attempts - 1
          /\ Len(rt.stack) = rt.attempts
    /\ \A i \in 1 .. Len(wire) :
          (/\ wire[i].via = "fetchWithRetry"
           /\ wire[i].kind = "resp"
           /\ ~IsOk(wire[i].resp.status)) => i = Len(wire)

C2_Witness ==
    /\ rt.pc = "returned"
    /\ ~IsOk(rt.resp.status)
    /\ RtTop(rt).retries > 0
    /\ rt.attempts = 2

(* C3: every outbound request of the adapter is issued by fetchWithRetry,  *)
(* so no adapter operation fails on the first transport failure of a call. *)
C3_EveryRequestRetried ==
    /\ \A i \in 1 .. Len(wire) : wire[i].via = "fetchWithRetry"
    /\ (hd.pc = "thrown" /\ hd.err.kind = "transport") =>
          Len(TrailingOf(wire, LastSent.url)) > 1
    /\ (lk.pc = "thrown" /\ lk.err.kind \in {"transport", "network"}) =>
          Len(TrailingOf(wire, LastSent.url)) > 1

(* The part of C3 that the code does implement: registerUser and            *)
(* connectionPortal are retried, the link fails on a transport failure only *)
(* after four attempts.                                                    *)
C3_LinkRequestsRetried ==
    /\ \A i \in 1 .. Len(wire) :
          wire[i].url \in LinkUrls => wire[i].via = "fetchWithRetry"
    /\ (lk.pc = "thrown" /\ lk.err.kind \in {"transport", "network"}) =>
          Len(TrailingOf(wire, LastSent.url)) = 4

(* C4: with the client id or the consumer key absent, each of the three    *)
(* adapter operations throws the credentials error, sends no request and   *)
(* returns nothing.                                                        *)
C4_CredentialsRequired ==
    (CLIENT_ID = "" \/ CONSUMER_KEY = "") =>
        /\ lk.pc \in {"idle", "thrown"}
        /\ hd.pc \in {"idle", "thrown"}
        /\ hc.pc \in {"idle", "thrown"}
        /\ lk.pc = "thrown" => (lk.err = CredentialsError /\ lk.result = "")
        /\ hd.pc = "thrown" => (hd.err = CredentialsError /\ hd.result = <<>>)
        /\ hc.pc = "thrown" => (hc.err = CredentialsError /\ ~hc.success)
        /\ (lk.pc # "idle" \/ hd.pc # "idle" \/ hc.pc # "idle") =>
              (wire = <<>> /\ rt.pc = "idle")

C4_Witness ==
    /\ CLIENT_ID # ""
    /\ CONSUMER_KEY = ""
    /\ lk.pc = "thrown"

\* a 2xx answer to the portal call whose JSON carries no redirectURI
PortalAnswerWithoutRedirect(sent) ==
    /\ sent.url \in PortalUrls
    /\ sent.kind = "resp"
    /\ IsOk(sent.resp.status)
    /\ sent.resp.body.form = "json"
    /\ IF sent.url = "connectionPortal"
       THEN sent.resp.body.json.redirectURI = ""
       ELSE /\ sent.resp.body.env.et = "obj"
            /\ sent.resp.body.env.status \in {0, 200}
            /\ sent.resp.body.env.data.jt \in {"obj", "null"}
            /\ sent.resp.body.env.data.redirectURI = ""

(* C5: when registration succeeded and the portal call is answered 2xx     *)
(* with JSON that has no redirectURI, createSnapTradeUserLink throws,      *)
(* returns no URL, and the error is not the credentials error.             *)
C5_MissingRedirectFails ==
    (/\ lk.pc \in {"returned", "thrown"}
     /\ wire # <<>>
     /\ PortalAnswerWithoutRedirect(LastSent)) =>
        /\ lk.pc = "thrown"
        /\ lk.result = ""
        /\ lk.err.kind \notin {"credentials", "none"}

C5_Witness ==
    /\ lk.pc = "thrown"
    /\ lk.err.kind = "no_redirect"
    /\ PortalAnswerWithoutRedirect(LastSent)

(* C6: whenever the body received for the register or the portal call      *)
(* starts with <!DOCTYPE or <html, createSnapTradeUserLink fails with the  *)
(* "Received HTML response" error, on the relayed and on the direct path,  *)
(* whatever the status.                                                    *)
C6_HtmlBodyGivesHtmlError ==
    (/\ lk.pc \in {"returned", "thrown"}
     /\ wire # <<>>
     /\ LastSent.kind = "resp"
     /\ StartsWithHtml(LastSent.resp.body)) =>
        (lk.pc = "thrown" /\ lk.err.kind = "html")

(* The part of C6 that the code does implement: the relayed path.          *)
C6_HtmlBodyOnRelayedPath ==
    (/\ lk.pc \in {"returned", "thrown"}
     /\ wire # <<>>
     /\ useProxy
     /\ LastSent.kind = "resp"
     /\ StartsWithHtml(LastSent.resp.body)) =>
        (lk.pc = "thrown" /\ lk.err.kind = "html")

-----------------------------------------------------------------------------
(* What the log says the accounts reported *)

AccountOfUrl(url) ==
    Account(CHOOSE i \in DOMAIN AccountNames :
                url \in {"balances:" \o AccountNames[i], "holdings:" \o AccountNames[i]})

\* a request that was answered 2xx with a JSON list
AnsweredList(sent) ==
    sent.kind = "resp" /\ IsOk(sent.resp.status) /\ sent.resp.body.form = "json"

\* a holdings request that failed: a transport failure or a non-2xx answer
HoldingsFetchFailed(sent) ==
    /\ sent.url \in HoldingsUrls
    /\ (sent.kind = "fail" \/ ~IsOk(sent.resp.status))

\* the positions of the accounts whose holdings request succeeded, in order
RECURSIVE PositionsReported(_)
PositionsReported(log) ==
    IF log = <<>> THEN <<>>
    ELSE LET sent == log[Len(log)]
             before == PositionsReported(SubSeq(log, 1, Len(log) - 1))
         IN IF sent.url \in HoldingsUrls /\ AnsweredList(sent)
            THEN before \o ToHoldings(AccountOfUrl(sent.url), sent.resp.body.list)
            ELSE before

HoldingsRequested(log) == {i \in 1 .. Len(log) : log[i].url \in HoldingsUrls}

IsSynthetic(h) == h.symbol = "CASH" /\ h.accountId = "cash"

PositionsOf(holdings) == SelectSeq(holdings, LAMBDA h : ~IsSynthetic(h))
SyntheticOf(holdings) == SelectSeq(holdings, IsSynthetic)

(* C7: whichever holdings requests fail (a non-2xx answer or a transport   *)
(* failure), fetchSnapTradeHoldings does not throw because of them, asks   *)
(* every account for its holdings and returns the positions of exactly the *)
(* accounts whose request succeeded.                                       *)
C7_FailedAccountsSkipped ==
    /\ (hd.pc = "thrown" /\ wire # <<>>) => ~HoldingsFetchFailed(LastSent)
    /\ hd.pc = "returned" =>
          /\ PositionsOf(hd.result) = PositionsReported(wire)
          /\ Cardinality(HoldingsRequested(wire)) = Len(hd.accounts)

(* The part of C7 that the code does implement: a non-2xx answer to a      *)
(* holdings request skips that account only.                               *)
C7_RejectedAccountsSkipped ==
    /\ (hd.pc = "thrown" /\ wire # <<>>) =>
          ~(HoldingsFetchFailed(LastSent) /\ LastSent.kind = "resp")
    /\ hd.pc = "returned" =>
          /\ PositionsOf(hd.result) = PositionsReported(wire)
          /\ Cardinality(HoldingsRequested(wire)) = Len(hd.accounts)

\* the balance entries an account reported: those of a 2xx JSON answer
BalancesReported(sent) ==
    IF sent.url \in BalancesUrls /\ AnsweredList(sent) THEN sent.resp.body.list ELSE <<>>

RECURSIVE SumAmounts(_)
SumAmounts(entries) ==
    IF entries = <<>> THEN 0 ELSE Head(entries).amount + SumAmounts(Tail(entries))

\* every entry flagged as cash, whatever its currency
CashEntries(sent) == SelectSeq(BalancesReported(sent), LAMBDA b : b.cash)

\* the first entry in USD flagged as cash, if any
FirstUsdCashEntry(sent) ==
    LET usd == SelectSeq(BalancesReported(sent), LAMBDA b : b.cash /\ b.currency = "USD")
    IN IF usd = <<>> THEN <<>> ELSE <<Head(usd)>>

RECURSIVE CashReported(_)
CashReported(log) ==
    IF log = <<>> THEN 0
    ELSE SumAmounts(CashEntries(Head(log))) + CashReported(Tail(log))

RECURSIVE UsdCashCounted(_)
UsdCashCounted(log) ==
    IF log = <<>> THEN 0
    ELSE SumAmounts(FirstUsdCashEntry(Head(log))) + UsdCashCounted(Tail(log))

SomeAccountReportsCash(log) ==
    \E i \in 1 .. Len(log) :
        \E k \in 1 .. Len(CashEntries(log[i])) : CashEntries(log[i])[k].amount > 0

NoAccountReportsCash(log) ==
    \A i \in 1 .. Len(log) : CashEntries(log[i]) = <<>>

\* the list ends with the one synthetic CASH holding, worth total
EndsWithOneCash(holdings, total) ==
    /\ Len(SyntheticOf(holdings)) = 1
    /\ holdings # <<>>
    /\ IsSynthetic(holdings[Len(holdings)])
    /\ holdings[Len(holdings)].totalValue = total

(* C8 as stated: when some account reports a positive cash balance, the    *)
(* returned list ends with exactly one synthetic CASH holding whose        *)
(* totalValue is the sum of the cash amounts reported across all accounts; *)
(* when no account reports cash, there is no synthetic CASH holding.       *)
C8_CashOfAllAccounts ==
    hd.pc = "returned" =>
        /\ SomeAccountReportsCash(wire) => EndsWithOneCash(hd.result, CashReported(wire))
        /\ NoAccountReportsCash(wire) => SyntheticOf(hd.result) = <<>>

(* C8 as amended: the cash counted is, for each account whose balances     *)
(* request was answered 2xx, the amount of its first USD cash entry; when  *)
(* the sum of these is positive the returned list ends with exactly one    *)
(* synthetic CASH holding whose totalValue is that sum, and otherwise      *)
(* there is no synthetic CASH holding.                                     *)
C8_UsdCashCounted ==
    hd.pc = "returned" =>
        /\ hd.totalCash = UsdCashCounted(wire)
        /\ UsdCashCounted(wire) > 0 => EndsWithOneCash(hd.result, UsdCashCounted(wire))
        /\ UsdCashCounted(wire) <= 0 => SyntheticOf(hd.result) = <<>>

C8_Witness ==
    /\ hd.pc = "returned"
    /\ Len(hd.accounts) = 2
    /\ UsdCashCounted(wire) = 7
    /\ Len(hd.result) > 1
    /\ EndsWithOneCash(hd.result, 7)

-----------------------------------------------------------------------------
(* Claims about the callback route *)

Received == cb.pc # "idle"

\* nothing outside the handler has been touched by this request
NothingDone ==
    /\ cb.log = <<>>
    /\ db = DbEmpty
    /\ hd.pc = "idle"
    /\ hc.pc = "idle"

(* C9: a callback that exits early writes nothing to the database, looks   *)
(* up no session and calls no adapter operation: without a userId it       *)
(* redirects to /dashboard/assets?error=missing_user_id whatever success   *)
(* and code are, and with a userId but neither success=true nor a code it  *)
(* redirects to /dashboard/assets?error=connection_failed.                 *)
C9_EarlyExitsTouchNothing ==
    /\ (Received /\ cb.userId = "") =>
          /\ cb.pc = "done"
          /\ cb.redirect = "/dashboard/assets?error=missing_user_id"
          /\ NothingDone
    /\ (Received /\ cb.userId # "" /\ ~cb.success /\ cb.code = "") =>
          /\ cb.pc = "done"
          /\ cb.redirect = "/dashboard/assets?error=connection_failed"
          /\ NothingDone
    /\ (cb.pc = "done" /\ cb.redirect \in {RedirectMissingUser, RedirectFailed}) =>
          NothingDone

C9_Witness ==
    /\ cb.pc = "done"
    /\ cb.userId # ""
    /\ ~cb.success
    /\ cb.code = ""
    /\ cb.session.user = cb.userId
    /\ cb.redirect = RedirectFailed

\* the request's session is not an authenticated session of the user named
\* by the userId parameter
Unverified ==
    cb.session.error \/ cb.session.user = "" \/ cb.session.user # cb.userId

(* C10: a callback whose userId differs from the session's user, or that   *)
(* comes with no session or with an auth error, ends in a redirect that    *)
(* carries an error marker and inserts no Asset row, whatever the success  *)
(* flag and the code are.                                                  *)
C10_UnverifiedImportsNothing ==
    (Received /\ Unverified) =>
        /\ db.assets = <<>>
        /\ cb.pc \in {"auth", "done"}
        /\ cb.pc = "done" =>
              cb.redirect \in {RedirectMissingUser, RedirectFailed, RedirectError}

C10_Witness ==
    /\ cb.pc = "done"
    /\ cb.userId # ""
    /\ cb.session.user \notin {"", cb.userId}
    /\ cb.code # ""
    /\ cb.success
    /\ cb.err.kind = "mismatch"
    /\ cb.redirect = RedirectError

-----------------------------------------------------------------------------
(* Claims about the connection-link route *)

\* some request with this url was answered 2xx with a JSON body
AcceptedCall(log, url) ==
    \E i \in 1 .. Len(log) :
        /\ log[i].url = url
        /\ log[i].kind = "resp"
        /\ IsOk(log[i].resp.status)
        /\ log[i].resp.body.form = "json"

\* the service accepted the register call and answered the portal call, the
\* last request of the activation, with a portal URL
ServiceAccepted ==
    /\ wire # <<>>
    /\ AcceptedCall(wire, "registerUser")
    /\ AcceptedCall(<<LastSent>>, "connectionPortal")
    /\ LastSent.resp.body.json.jt = "obj"
    /\ LastSent.resp.body.json.redirectURI # ""

\* a request that the claim C11 is about, answered
LinkRequestServed ==
    /\ post.pc = "done"
    /\ post.parsed
    /\ post.userId # ""
    /\ post.callbackUrl # ""
    /\ CLIENT_ID # ""
    /\ CONSUMER_KEY # ""
    /\ ServiceAccepted

RepliedWithPortalUrl ==
    /\ post.reply.status = 200
    /\ post.reply.error = NoErr
    /\ post.reply.redirectUri = LastSent.resp.body.json.redirectURI

IsPendingRowOf(row, userId) ==
    /\ row.is_active = "false"
    /\ row.user_id = userId
    /\ row.api_key = "pending_connection"

(* C11 as stated: a connection-link request with a userId and a            *)
(* callbackUrl, configured credentials and a service that accepts the      *)
(* register and the portal call is answered 200 with the portal URL of the *)
(* service as redirectUri, and one broker_connections row with             *)
(* is_active=false and the request's userId has been recorded.             *)
C11_LinkRecordsPendingRow ==
    LinkRequestServed =>
        /\ RepliedWithPortalUrl
        /\ Len(db.broker_connections) = 1
        /\ IsPendingRowOf(db.broker_connections[1], post.userId)

(* C11 as amended: such a request is answered 200 with the portal URL of   *)
(* the service as redirectUri once the attempt to record the connection    *)
(* has settled; the row with is_active=false and the request's userId is   *)
(* recorded when the insert succeeds, and when the insert fails no row is  *)
(* recorded and the answer is the same.                                    *)
C11_LinkAnswersPortalUrl ==
    /\ LinkRequestServed =>
          /\ RepliedWithPortalUrl
          /\ post.log = <<"createSnapTradeUserLink", "insert broker_connections">>
                \/ post.log = <<"createSnapTradeUserLink", "insert broker_connections",
                                "console.error">>
          /\ Len(db.broker_connections) <= 1
          /\ \A i \in 1 .. Len(db.broker_connections) :
                IsPendingRowOf(db.broker_connections[i], post.userId)
    /\ (post.pc = "record" /\ ServiceAccepted) => db.broker_connections = <<>>

C11_Witness ==
    /\ LinkRequestServed
    /\ post.brokerId = "questrade"
    /\ Len(wire) > 2
    /\ Len(db.broker_connections) = 1
    /\ db.broker_connections[1].broker_id = "questrade"

\* the request's body was read and lacks the userId or the callbackUrl
LacksRequiredField ==
    /\ post.pc # "idle"
    /\ post.parsed
    /\ (post.userId = "" \/ post.callbackUrl = "")

(* C12: a connection-link request in which userId is missing or            *)
(* callbackUrl is missing is answered with status 400 and an {error} body, *)
(* without calling the adapter and without writing any broker_connections  *)
(* row.                                                                    *)
C12_MissingFieldIsRejected ==
    LacksRequiredField =>
        /\ post.pc = "done"
        /\ post.reply.status = 400
        /\ post.reply.error.kind \in {"user_required", "callback_required"}
        /\ post.reply.redirectUri = ""
        /\ post.log = <<>>
        /\ lk.pc = "idle"
        /\ rt.pc = "idle"
        /\ wire = <<>>
        /\ db.broker_connections = <<>>

C12_Witness ==
    /\ LacksRequiredField
    /\ post.userId # ""
    /\ post.callbackUrl = ""
    /\ post.brokerId # ""
    /\ post.reply.status = 400
    /\ post.reply.error.kind = "callback_required"

-----------------------------------------------------------------------------
(* Claims about the import of the callback route *)

CountOf(log, entry) == Cardinality({i \in 1 .. Len(log) : log[i] = entry})

\* the activation passed the early exits and the session check
VerifiedCallback(c) ==
    /\ c.pc # "idle"
    /\ c.userId # ""
    /\ (c.success \/ c.code # "")
    /\ ~c.session.error
    /\ c.session.user = c.userId

\* the activation is over, its category lookup gave a row and none of its
\* inserts into assets failed
ImportedAll(c) ==
    /\ c.pc = "done"
    /\ VerifiedCallback(c)
    /\ c.categoryId # ""
    /\ c.err = NoErr
    /\ CountOf(c.log, "console.error") = 0

\* the row is the Asset of the holding, owned by the user
IsAssetOf(row, holding, user) ==
    /\ row.user_id = user
    /\ row.symbol = holding.symbol
    /\ row.name = holding.name
    /\ row.value = holding.totalValue
    /\ row.quantity = holding.quantity
    /\ row.price_per_share = holding.pricePerShare
    /\ row.source = "snaptrade"

(* C13: for a verified callback in which fetchSnapTradeHoldings returns n  *)
(* holdings, the investments category resolves and every insert succeeds,  *)
(* exactly n Asset rows are inserted, one per holding and in holding       *)
(* order, each owned by the session user, and the response is a redirect   *)
(* to /dashboard/assets?success=true.                                      *)
C13_OneAssetPerHolding ==
    ImportedAll(cb) =>
        /\ hd.pc = "returned"
        /\ cb.holdings = hd.result
        /\ Len(db.assets) = Len(hd.result)
        /\ \A i \in 1 .. Len(hd.result) :
              IsAssetOf(db.assets[i], hd.result[i], cb.session.user)
        /\ cb.redirect = "/dashboard/assets?success=true"

C13_Witness ==
    /\ ImportedAll(cb)
    /\ cb.code # ""
    /\ Len(hd.result) = 2
    /\ hd.result[2].symbol = "CASH"
    /\ Len(db.assets) = 2
    /\ db.assets[2].asset_type = "cash"

\* the activation entered the import loop and left it
LoopFinished(c) ==
    c.pc = "done" /\ c.categoryId # "" /\ c.holdings # <<>> /\ c.err = NoErr

(* C14: in the import loop a failed Asset insert for holding i does not    *)
(* stop the loop: an insert is attempted for every holding after i, so     *)
(* the number of insert attempts equals the number of holdings returned by *)
(* the adapter.                                                            *)
C14_FailedInsertDoesNotStopLoop ==
    /\ cb.pc = "insert" =>
          /\ CountOf(cb.log, "insert assets") = cb.k - 1
          /\ cb.k <= Len(cb.holdings)
    /\ LoopFinished(cb) =>
          /\ cb.holdings = hd.result
          /\ CountOf(cb.log, "insert assets") = Len(hd.result)
          /\ Len(db.assets) = Len(hd.result) - CountOf(cb.log, "console.error")
          /\ cb.redirect = RedirectSuccess

C14_Witness ==
    /\ LoopFinished(cb)
    /\ Len(hd.result) = 2
    /\ CountOf(cb.log, "insert assets") = 2
    /\ CountOf(cb.log, "console.error") = 1
    /\ Len(db.assets) = 1
    /\ db.assets[1].symbol = hd.result[2].symbol

\* the failure, if any, that the adapter or the session check raised for the
\* request is the one the activation ended with
RaisedFailureIsReported ==
    /\ (VerifiedCallback(cb) /\ hd.pc = "thrown") => cb.err = hd.err
    /\ (VerifiedCallback(cb) /\ hc.pc = "thrown") => cb.err = hc.err
    /\ (Received /\ EarlyExit(cb.userId, cb.success, cb.code) = "" /\ ~VerifiedCallback(cb)) =>
          cb.err.kind \in {"auth", "no_user", "mismatch"}

CbEnded ==
    /\ cb.redirect \in {RedirectMissingUser, RedirectFailed, RedirectSuccess, RedirectError}
    /\ cb.err # NoErr <=> cb.redirect = RedirectError
    /\ cb.err # NoErr => "getUser" \in {cb.log[i] : i \in 1 .. Len(cb.log)}
    /\ RaisedFailureIsReported

(* C15: every callback invocation ends with exactly one redirect to the    *)
(* asset list page; a failure raised after the early-exit checks (session  *)
(* lookup, code exchange, connection insert, holdings fetch, category      *)
(* lookup, import loop) is caught and turned into the redirect that        *)
(* carries error=true and the failure's message; no failure leaves the     *)
(* handler without a redirect.                                             *)
C15_EndsInOneRedirect ==
    /\ [](IF cb.pc = "done" THEN CbEnded ELSE cb.redirect = "" /\ cb.err = NoErr)
    /\ [][cb.pc = "done" => cb' = cb]_vars
    /\ (Received ~> cb.pc = "done")

C15_Witness ==
    /\ cb.pc = "done"
    /\ cb.redirect = RedirectError
    /\ cb.err.kind = "category_missing"
    /\ Len(cb.holdings) = 2
    /\ Len(db.broker_connections) = 1

-----------------------------------------------------------------------------
(* Claims about the replies of the connection-link route *)

\* the reply has one of the two shapes the route produces
ReplyShape(reply) ==
    \/ reply.status = 200 /\ reply.redirectUri # "" /\ reply.error = NoErr
    \/ reply.status \in {400, 500, 502} /\ reply.redirectUri = "" /\ reply.error # NoErr

\* the adapter failed on a response whose body is an HTML page
FailedOnHtmlPage ==
    /\ lk.pc = "thrown"
    /\ wire # <<>>
    /\ LastSent.kind = "resp"
    /\ LooksLikeHtml(LastSent.resp.body)

(* C16: every reply of the connection-link route is 200 with a             *)
(* {redirectUri} body or one of 400, 500, 502 with an {error} body; 502 is *)
(* returned exactly when the adapter failed because the service answered   *)
(* with an HTML page instead of JSON, and every other adapter failure is   *)
(* returned as 500.                                                        *)
C16_HtmlPageGives502 ==
    post.pc = "done" =>
        /\ ReplyShape(post.reply)
        /\ post.reply.status = 502 <=> FailedOnHtmlPage
        /\ (lk.pc = "thrown" /\ ~FailedOnHtmlPage) => post.reply.status = 500

(* The part of C16 that the code does implement: the shapes of the         *)
(* replies, 502 only for an adapter failure on an HTML page, and 500 for   *)
(* every other adapter failure.                                            *)
C16_Only502ForHtmlPage ==
    post.pc = "done" =>
        /\ ReplyShape(post.reply)
        /\ post.reply.status = 502 => FailedOnHtmlPage
        /\ (lk.pc = "thrown" /\ ~FailedOnHtmlPage) => post.reply.status = 500

-----------------------------------------------------------------------------
(* Claims about the budget of fetchWithRetry *)

RECURSIVE SumOf(_)
SumOf(waits) == IF waits = <<>> THEN 0 ELSE Head(waits) + SumOf(Tail(waits))

Called == rt.pc # "idle"
Settled == rt.pc \in {"returned", "thrown"}

\* the arguments of the outermost call
RetriesArg == rt.stack[1].retries
DelayArg == rt.stack[1].delay

\* the retries that can be made: none for a negative argument
Budget == IF RetriesArg > 0 THEN RetriesArg ELSE 0

FailedAttempts == Len(SelectSeq(TrailingOf(wire, rt.url), LAMBDA sent : sent.kind = "fail"))

\* sum <= d * (2^r - 1) and sum = d * (2^r - 1), also for a negative r, where
\* both sides are multiplied by 2^(-r)
WithinStated(sum, r, d) ==
    IF r >= 0 THEN sum <= d * (Power2(r) - 1)
    ELSE sum * Power2(0 - r) <= d * (1 - Power2(0 - r))

EqualsStated(sum, r, d) ==
    IF r >= 0 THEN sum = d * (Power2(r) - 1)
    ELSE sum * Power2(0 - r) = d * (1 - Power2(0 - r))

\* what the caller gets: the response of the last attempt, or its error
GetsLastOutcome ==
    /\ rt.pc = "returned" =>
          LastSent.kind = "resp" /\ rt.resp = LastSent.resp /\ rt.err = NoErr
    /\ rt.pc = "thrown" =>
          /\ LastSent.kind = "fail"
          /\ rt.err = LastSent.err
          /\ rt.err = TransportError(rt.attempts)
          /\ rt.resp = NoResponse

FirstFailureWithNoBudget ==
    (RetriesArg <= 0 /\ FailedAttempts > 0) =>
        rt.pc = "thrown" /\ rt.attempts = 1 /\ rt.waits = <<>>

(* C17 as stated: fetchWithRetry(retries=r, delay=d) ends after at most    *)
(* r+1 attempts with a response or the transport error of the last         *)
(* attempt; the sum of the waits it schedules never exceeds d*(2^r - 1)    *)
(* and equals that value exactly when all r+1 attempts fail; with r <= 0 a *)
(* first-attempt failure is propagated with no wait.                       *)
C17_AtMostRetriesPlusOne ==
    Called =>
        /\ rt.attempts <= RetriesArg + 1
        /\ WithinStated(SumOf(rt.waits), RetriesArg, DelayArg)
        /\ Settled =>
              /\ GetsLastOutcome
              /\ EqualsStated(SumOf(rt.waits), RetriesArg, DelayArg)
                    <=> FailedAttempts = RetriesArg + 1
        /\ FirstFailureWithNoBudget

\* the safety part of C17 as amended
RetryBudgetKept ==
    Called =>
        /\ rt.attempts <= Budget + 1
        /\ SumOf(rt.waits) <= DelayArg * (Power2(Budget) - 1)
        /\ Settled =>
              /\ GetsLastOutcome
              /\ SumOf(rt.waits) = DelayArg * (Power2(Budget) - 1)
                    <=> FailedAttempts >= Budget
              /\ rt.pc = "thrown" <=> FailedAttempts = Budget + 1
        /\ FirstFailureWithNoBudget

(* C17 as amended: with b = max(r, 0), fetchWithRetry(retries=r, delay=d), *)
(* every fetch of which settles, ends after at most b+1 attempts with a    *)
(* response or the transport error of the last attempt; the sum of the     *)
(* waits it schedules never exceeds d*(2^b - 1) and equals that value      *)
(* exactly when the first b attempts fail, whatever the last attempt       *)
(* gives; the error is propagated exactly when all b+1 attempts fail, and  *)
(* with r <= 0 a first-attempt failure is propagated with no wait.         *)
C17_BudgetAndTermination ==
    /\ []RetryBudgetKept
    /\ (Called ~> Settled)

C17_Witness ==
    /\ rt.pc = "returned"
    /\ rt.url = "any"
    /\ RetriesArg = 2
    /\ DelayArg = 250
    /\ rt.attempts = 3
    /\ SumOf(rt.waits) = 750

-----------------------------------------------------------------------------
(* Claims about the connection row of the callback route *)

Logged(c, entry) == \E i \in 1 .. Len(c.log) : c.log[i] = entry

\* entry a is in the log before entry b
LoggedBefore(c, a, b) ==
    \E i, j \in 1 .. Len(c.log) : i < j /\ c.log[i] = a /\ c.log[j] = b

IsConnectedRowOf(row, userId) ==
    /\ row.user_id = userId
    /\ row.broker_id = "snaptrade"
    /\ row.api_key = "snaptrade_connection"
    /\ row.broker_data = "connected_at"

\* the session check of the activation has passed
PastSessionCheck(c) == VerifiedCallback(c) /\ Logged(c, "getUser")

ConnectionRowRule ==
    /\ (PastSessionCheck(cb) /\ cb.code # "") =>
          /\ Logged(cb, "handleSnapTradeCallback")
          /\ hc.pc \in {"returned", "thrown"}
          /\ hc.pc = "thrown" => (cb.pc = "done" /\ cb.err = hc.err)
          /\ Len(db.broker_connections) <= 1
          /\ Logged(cb, "fetchSnapTradeHoldings") =>
                /\ hc.success
                /\ LoggedBefore(cb, "insert broker_connections", "fetchSnapTradeHoldings")
                /\ CountOf(cb.log, "insert broker_connections") = 1
                /\ Len(db.broker_connections) = 1
                /\ IsConnectedRowOf(db.broker_connections[1], cb.session.user)
    /\ (Received /\ cb.code = "") =>
          /\ db.broker_connections = <<>>
          /\ ~Logged(cb, "insert broker_connections")
          /\ ~Logged(cb, "handleSnapTradeCallback")
    /\ cb.err.kind = "connection" =>
          /\ cb.pc = "done"
          /\ ~Logged(cb, "fetchSnapTradeHoldings")
          /\ hd.pc = "idle"
          /\ db = DbEmpty

(* C18: in the callback route, when a code is present and the session is   *)
(* verified, the code is exchanged by handleSnapTradeCallback and, on      *)
(* success, exactly one broker_connections row (broker_id "snaptrade",     *)
(* connected_at metadata) is inserted for the user before the holdings are *)
(* fetched; with no code (success=true only) no broker_connections row is  *)
(* inserted; when that insert reports an error the holdings are not        *)
(* fetched and no Asset row is inserted.                                   *)
C18_ConnectionRowBeforeHoldings ==
    /\ []ConnectionRowRule
    /\ [][(hd' # hd /\ cb.code # "") => Len(db.broker_connections) = 1]_vars
    /\ [][db.assets' # db.assets => hd.pc = "returned"]_vars

C18_Witness ==
    /\ cb.pc = "done"
    /\ cb.code # ""
    /\ ~cb.success
    /\ cb.redirect = RedirectSuccess
    /\ Len(db.broker_connections) = 1
    /\ Len(db.assets) = 2

-----------------------------------------------------------------------------
(* Claims about the rows of the two tables over several requests *)

\* table b is table a with zero or more rows added at the end
IsPrefix(a, b) == Len(a) <= Len(b) /\ SubSeq(b, 1, Len(a)) = a

\* the rows the activation has added to broker_connections
ConnectionsAddedBy(c) ==
    IF Logged(c, "insert broker_connections") /\ c.err.kind # "connection" THEN 1 ELSE 0

\* the rows the activation has added to assets
AssetsAddedBy(c) ==
    CountOf(c.log, "insert assets") - CountOf(c.log, "console.error")
        - CountOf(c.log, "rejected")

PendingRows == SelectSeq(db.broker_connections, LAMBDA row : row.is_active = "false")

\* a pending row is the first row and stays as the connection-link route wrote
\* it; each callback that inserted a connection added a row of its own after it
PendingRowKept ==
    /\ Len(PendingRows) <= 1
    /\ PendingRows # <<>> =>
          /\ db.broker_connections[1] = PendingRows[1]
          /\ PendingRows[1].api_key = "pending_connection"
          /\ PendingRows[1].broker_data = "connection_started"
    /\ Len(db.broker_connections) =
          Len(PendingRows) + ConnectionsAddedBy(cb) + ConnectionsAddedBy(waiting)
    /\ \A i \in 1 .. Len(db.broker_connections) :
          db.broker_connections[i].is_active # "false" =>
              \E c \in {cb, waiting} :
                  /\ ConnectionsAddedBy(c) = 1
                  /\ IsConnectedRowOf(db.broker_connections[i], c.userId)

(* C19: over any sequence of connection-link and callback requests the     *)
(* rows of broker_connections and the rows of assets only grow: no row is  *)
(* deleted and no existing row is modified; in particular the pending row  *)
(* (is_active=false, api_key "pending_connection") written by the          *)
(* connection-link route is never changed by a later callback, which       *)
(* inserts a separate row instead.                                         *)
C19_RowsOnlyGrow ==
    /\ [][/\ IsPrefix(db.broker_connections, db.broker_connections')
          /\ IsPrefix(db.assets, db.assets')]_vars
    /\ []PendingRowKept

C19_Witness ==
    /\ Len(db.broker_connections) = 3
    /\ IsPendingRowOf(db.broker_connections[1], cb.userId)
    /\ db.broker_connections[1].broker_id = "questrade"
    /\ IsConnectedRowOf(db.broker_connections[2], cb.userId)
    /\ IsConnectedRowOf(db.broker_connections[3], cb.userId)
    /\ Len(db.assets) = 4

\* the callback requests made so far
Requests == SelectSeq(<<cb, waiting>>, LAMBDA c : c.pc # "idle")

\* the rows of assets that are the Asset of the holding for the user
CopiesOf(holding, user) ==
    {j \in 1 .. Len(db.assets) :
        /\ IsAssetOf(db.assets[j], holding, user)
        /\ db.assets[j].account_id = holding.accountId}

\* every request made so far was verified, got the same holdings from the
\* adapter and has inserted all of them
AllImportedTheSame ==
    /\ Requests # <<>>
    /\ \A i \in 1 .. Len(Requests) :
          /\ ImportedAll(Requests[i])
          /\ Requests[i].userId = Requests[1].userId
          /\ Requests[i].holdings = Requests[1].holdings

(* C20: the import of the callback is not idempotent: after the verified   *)
(* callback has run k times for the same user, one after the other or      *)
(* interleaved, with the adapter returning the same n holdings each time,  *)
(* there are k*n Asset rows, k for each holding: no run looks up, merges   *)
(* with or skips an Asset imported before for the same symbol and account. *)
C20_ImportIsNotIdempotent ==
    /\ Len(db.assets) = AssetsAddedBy(cb) + AssetsAddedBy(waiting)
    /\ AllImportedTheSame =>
          /\ Len(db.assets) = Len(Requests) * Len(Requests[1].holdings)
          /\ \A i \in 1 .. Len(Requests[1].holdings) :
                Cardinality(CopiesOf(Requests[1].holdings[i], Requests[1].userId))
                    = Len(Requests)

C20_Witness ==
    /\ AllImportedTheSame
    /\ Len(Requests) = 2
    /\ Len(cb.holdings) = 2
    /\ Len(db.assets) = 4
    /\ db.assets[1].symbol = db.assets[2].symbol
    /\ db.assets[3].symbol = db.assets[4].symbol

-----------------------------------------------------------------------------
(* Claims about the requests of createSnapTradeUserLink *)

Relayed(sent) == sent.url \in {"relay:registerUser", "relay:connectionPortal"}

\* the relay delivered an envelope that reports the status of the service
RelayedStatus(sent) ==
    /\ Relayed(sent)
    /\ sent.kind = "resp"
    /\ IsOk(sent.resp.status)
    /\ sent.resp.body.form = "json"
    /\ sent.resp.body.env.et = "obj"
    /\ sent.resp.body.env.status # 0

\* the status with which the service answered the request
UpstreamStatus(sent) ==
    IF Relayed(sent) THEN sent.resp.body.env.status ELSE sent.resp.status

\* the service rejected the register or the portal call with a non-2xx status
UpstreamRejected(sent) ==
    /\ sent.url \in LinkUrls
    /\ sent.kind = "resp"
    /\ Relayed(sent) => RelayedStatus(sent)
    /\ ~IsOk(UpstreamStatus(sent))

\* the message of the error ends with the status code
MessageCarriesStatus(err, status) ==
    err.kind \in {"register_status", "portal_status"} /\ err.code = status

\* the rejection came with a JSON body that has no error field
PlainJsonRejection(sent) ==
    IF Relayed(sent)
    THEN /\ sent.resp.body.env.error = ""
         /\ sent.resp.body.env.data.jt \in {"obj", "null"}
         /\ sent.resp.body.env.data.error = ""
    ELSE sent.resp.body.form = "json"

(* C21: when the service rejects the register call or the portal call with *)
(* a non-2xx status, createSnapTradeUserLink fails with an error whose     *)
(* message carries that status code, on the direct path and on the relayed *)
(* path, also when the JSON body of the rejection has an error field.      *)
C21_RejectionStatusSurfaced ==
    (/\ lk.pc \in {"returned", "thrown"}
     /\ wire # <<>>
     /\ UpstreamRejected(LastSent)) =>
        /\ lk.pc = "thrown"
        /\ MessageCarriesStatus(lk.err, UpstreamStatus(LastSent))

(* The part of C21 that the code does implement: a rejection with a JSON   *)
(* body on the direct path, and one without an error field on the relayed  *)
(* path.                                                                   *)
C21_PlainRejectionStatusSurfaced ==
    (/\ lk.pc \in {"returned", "thrown"}
     /\ wire # <<>>
     /\ UpstreamRejected(LastSent)
     /\ PlainJsonRejection(LastSent)) =>
        /\ lk.pc = "thrown"
        /\ MessageCarriesStatus(lk.err, UpstreamStatus(LastSent))

RegisterUrls == {"registerUser", "relay:registerUser"}

\* the registerUser request completed with a 2xx response that can be read
RegisterCompleted(sent) ==
    /\ sent.url \in RegisterUrls
    /\ sent.kind = "resp"
    /\ IsOk(sent.resp.status)
    /\ sent.resp.body.form = "json"
    /\ Relayed(sent) =>
          /\ sent.resp.body.env.et = "obj"
          /\ sent.resp.body.env.error = ""
          /\ sent.resp.body.env.data.jt \in {"obj", "null"}
          /\ sent.resp.body.env.data.error = ""
          /\ sent.resp.body.env.status = 0 \/ IsOk(sent.resp.body.env.status)

\* the requests made so far and, last, the one under way
Issued ==
    IF rt.pc \in {"fetch", "sleep"}
    THEN Append(wire, Failed(rt.url, "fetchWithRetry", rt.brokerage, NoErr))
    ELSE wire

PortalAfterRegister ==
    \A i \in 1 .. Len(Issued) :
        /\ Issued[i].url \in PortalUrls =>
              /\ \E j \in 1 .. i - 1 : RegisterCompleted(Issued[j])
              /\ Issued[i].brokerage = lk.brokerId
              /\ Issued[i].brokerage # "" <=> lk.brokerId # ""
        /\ Issued[i].url \in RegisterUrls =>
              /\ Issued[i].brokerage = ""
              /\ \A j \in 1 .. i - 1 : Issued[j].url \in RegisterUrls

NoPortalAfterFailure ==
    (/\ lk.pc = "thrown"
     /\ \A i \in 1 .. Len(wire) : ~RegisterCompleted(wire[i])) =>
        \A i \in 1 .. Len(wire) : wire[i].url \notin PortalUrls

(* C22: createSnapTradeUserLink issues the connectionPortal request only   *)
(* after the registerUser request has completed with a 2xx response: when  *)
(* registration fails (transport error after the retries, non-2xx status   *)
(* or unreadable body) no portal request is sent; the portal request       *)
(* carries a brokerage field exactly when a non-empty brokerId was given.  *)
C22_PortalOnlyAfterRegister ==
    /\ PortalAfterRegister
    /\ NoPortalAfterFailure
    /\ lk.pc = "portal" => \E i \in 1 .. Len(wire) : RegisterCompleted(wire[i])

C22_Witness ==
    /\ lk.pc = "returned"
    /\ useProxy
    /\ lk.brokerId = "questrade"
    /\ LastSent.url = "relay:connectionPortal"
    /\ LastSent.brokerage = "questrade"
    /\ RegisterCompleted(wire[1])

-----------------------------------------------------------------------------
(* Claims about the add-asset dialog *)

\* the screen flags that are set
FlagsSet(d) ==
    (IF d.showAssetTypes THEN {"showAssetTypes"} ELSE {})
    \cup (IF d.showStocksOptions THEN {"showStocksOptions"} ELSE {})
    \cup (IF d.showStockSearch THEN {"showStockSearch"} ELSE {})
    \cup (IF d.showCryptoSearch THEN {"showCryptoSearch"} ELSE {})
    \cup (IF d.showBrokerSelection THEN {"showBrokerSelection"} ELSE {})
    \cup (IF d.showSnapTradeBrokerSelection THEN {"showSnapTradeBrokerSelection"} ELSE {})
    \cup (IF d.showMetalsForm THEN {"showMetalsForm"} ELSE {})
    \cup (IF d.showCarSearch THEN {"showCarSearch"} ELSE {})

(* C23: in every reachable state of the add-asset dialog at most one       *)
(* screen is rendered: the flags showAssetTypes, showStocksOptions,        *)
(* showStockSearch, showCryptoSearch, showBrokerSelection,                 *)
(* showSnapTradeBrokerSelection, showMetalsForm and showCarSearch are      *)
(* pairwise exclusive, and the generic asset form is rendered only when    *)
(* none of them is set.                                                    *)
C23_OneScreenAtATime ==
    /\ Cardinality(FlagsSet(dlg)) <= 1
    /\ Cardinality(Rendered(dlg)) <= 1
    /\ "form" \in Rendered(dlg) => FlagsSet(dlg) = {}

(* C24: from every screen other than the asset-type screen, the Back       *)
(* control leads to the screen from which the screen was entered, for      *)
(* every path by which the screen can be reached.                          *)
C24_BackLeadsToOrigin ==
    (dlg.last.kind = "back" /\ dlg.last.origin # "unknown") =>
        /\ dlg.last.origin \in Rendered(dlg)
        /\ dlg.last.screen \notin Rendered(dlg)

(* C25: selecting a broker on the last screen of the broker-selection flow *)
(* invokes the connection-link endpoint, and when a portal URL is returned *)
(* the browser is redirected to exactly that URL; the browser is never     *)
(* redirected to the portal without a connection-link call before it.      *)
C25_BrokerChoiceCallsEndpoint ==
    /\ (dlg.linking \/ dlg.location = PortalUrl) =>
          /\ "POST connection-link" \in dlg.calls
          /\ post.pc # "idle"
    /\ dlg.location = PortalUrl =>
          /\ post.pc = "done"
          /\ post.reply.redirectUri = dlg.location

(* C30: after handleClose has run from any reachable state of the dialog,  *)
(* the view state is the initial one: showAssetTypes is true and every     *)
(* other screen flag is false, so the next opening shows only the          *)
(* asset-type screen.                                                      *)
C30_CloseResetsView ==
    dlg.last.kind = "close" =>
        /\ FlagsSet(dlg) = {"showAssetTypes"}
        /\ ~dlg.open
        /\ Rendered([dlg EXCEPT !.open = TRUE]) = {"types"}

-----------------------------------------------------------------------------
(* Claims about failures and ownership in the callback route *)

\* the activation ended in the outer catch
Caught(c) == c.pc = "done" /\ c.err # NoErr

(* C26: the import of the callback route is not atomic: when processing    *)
(* fails with a thrown error after some writes (a failure while inserting  *)
(* holding i, a failed holdings fetch or a missing investments category    *)
(* after the BrokerConnection insert), the rows written before the failure *)
(* remain, nothing is rolled back, and the response is the error redirect. *)
C26_FailureKeepsWrittenRows ==
    /\ [](Caught(cb) =>
            /\ cb.redirect = RedirectError
            /\ Len(db.broker_connections) = ConnectionsAddedBy(cb)
            /\ Len(db.assets) = AssetsAddedBy(cb))
    /\ [][(~Caught(cb) /\ Caught(cb')) => db' = db]_vars

C26_Witness ==
    /\ Caught(cb)
    /\ cb.err.kind = "insert"
    /\ cb.k = 2
    /\ Len(db.assets) = 1
    /\ Len(db.broker_connections) = 1
    /\ cb.redirect = RedirectError

\* the calls of the adapter and the inserts the route makes
AdapterCallsAndInserts ==
    {"handleSnapTradeCallback", "fetchSnapTradeHoldings",
     "insert broker_connections", "insert assets"}

\* the session of the request is an authenticated session of the userId
SessionIsOfUser(c) ==
    /\ ~c.session.error
    /\ c.session.user # ""
    /\ c.session.user = c.userId

(* C27: the callback route makes no adapter call and no insert before the  *)
(* session check has established an authenticated user equal to userId,   *)
(* and every Asset and BrokerConnection row it writes is owned by that     *)
(* user.                                                                   *)
C27_NothingBeforeSessionCheck ==
    /\ \A entry \in AdapterCallsAndInserts :
          Logged(cb, entry) =>
              /\ SessionIsOfUser(cb)
              /\ cb.log[1] = "getUser"
    /\ \A i \in 1 .. Len(db.assets) :
          SessionIsOfUser(cb) /\ db.assets[i].user_id = cb.session.user
    /\ \A i \in 1 .. Len(db.broker_connections) :
          SessionIsOfUser(cb) /\ db.broker_connections[i].user_id = cb.session.user

C27_Witness ==
    /\ cb.pc = "done"
    /\ SessionIsOfUser(cb)
    /\ \A entry \in AdapterCallsAndInserts : Logged(cb, entry)
    /\ Len(db.broker_connections) = 1
    /\ Len(db.assets) = 2
    /\ db.assets[2].user_id = cb.userId
    /\ db.broker_connections[1].user_id = cb.userId

\* the holdings were fetched, the category was resolved and no awaited insert
\* was rejected: the activation is in the loop or past it
LoopEntered(c) == c.categoryId # "" /\ CountOf(c.log, "rejected") = 0

(* C29: once the holdings were fetched and the investments category was    *)
(* resolved, the callback route redirects to the success page regardless   *)
(* of how many Asset inserts returned an error, including the case in      *)
(* which every insert fails and no Asset row is written.                   *)
C29_SuccessWhateverInsertsFail ==
    (LoopEntered(cb) /\ cb.pc = "done") =>
        /\ cb.redirect = RedirectSuccess
        /\ CountOf(cb.log, "insert assets") = Len(cb.holdings)
        /\ Len(db.assets) = Len(cb.holdings) - CountOf(cb.log, "console.error")

C29_Witness ==
    /\ LoopEntered(cb)
    /\ cb.pc = "done"
    /\ Len(cb.holdings) = 2
    /\ CountOf(cb.log, "console.error") = 2
    /\ db.assets = <<>>
    /\ cb.redirect = RedirectSuccess

-----------------------------------------------------------------------------
(* Claims about the order of the connection-link route *)

\* the route has attempted the insert of the pending row
RecordAttempted == Logged(post, "insert broker_connections")

(* C28: in the connection-link route the pending-row insert is attempted   *)
(* only after createSnapTradeUserLink has returned a URL; whenever the     *)
(* endpoint answers 400, 500 or 502 no row has been written by the         *)
(* request; and a failure of the insert never changes the 200 answer that  *)
(* carries the redirectUri.                                                *)
C28_RecordOnlyAfterLink ==
    /\ RecordAttempted =>
          /\ post.log[1] = "createSnapTradeUserLink"
          /\ lk.pc = "returned"
          /\ lk.result = PortalUrl
          /\ post.pc = "done"
          /\ post.reply = Reply(200, lk.result, NoErr)
    /\ (post.pc = "done" /\ post.reply.status \in {400, 500, 502}) =>
          /\ ~RecordAttempted
          /\ db.broker_connections = <<>>
    /\ post.pc = "done" => post.reply.status \in {200, 400, 500, 502}
    /\ db.broker_connections # <<>> => RecordAttempted

C28_Witness ==
    /\ post.pc = "done"
    /\ RecordAttempted
    /\ Logged(post, "console.error")
    /\ db.broker_connections = <<>>
    /\ post.reply.status = 200
    /\ post.reply.redirectUri = PortalUrl

=============================================================================
